---------------------------- MODULE Spec2Model ----------------------------
(***************************************************************************)
(* A model of biliparser.py: the feed resolution pipeline of the           *)
(* telegram-bili-feed-helper.  It covers the URL dispatcher (feed_parser), *)
(* the per-kind resolvers with their cache-aside protocol, the retrying    *)
(* wrapper safe_parser, the comment resolver reply_parser and the batch    *)
(* entry point biliparser.                                                 *)
(*                                                                         *)
(* The cache tables (module database) and the upstream HTTP services are   *)
(* not part of biliparser.py.  The tables are modelled as sets of rows     *)
(* with the unique natural keys the specification gives them; the upstream *)
(* services answer every request with a payload whose data key is valid,   *)
(* empty or absent.                                                        *)
(***************************************************************************)
EXTENDS Integers, Sequences, FiniteSets, TLC

VARIABLES
    now,        \* the wall clock, timezone.now()
    db,         \* the cache tables: table name -> set of rows
    upstream,   \* what each upstream endpoint currently answers
    urls,       \* the batch handed to biliparser (after scheme normalisation)
    stack,      \* per task: the stack of suspended coroutine frames
    result,     \* per task: the value feed_parser returned, or Pending
    bili,       \* biliparser itself: its position and its return value
    calls,      \* history: a summary of every finished safe_parser call
    lastWrite,  \* history: per key, the last write a resolver made, with the
                \* query and the timeout of the lookup of that resolver
    env,        \* the environment: the links users send, the endpoints they reach
    pin,        \* input of the pure function under test
    pout        \* its output

vars == <<now, db, upstream, urls, stack, result, bili, calls, lastWrite, env, pin, pout>>

-----------------------------------------------------------------------------
(* URLs.  A URL is a scheme, a host (its dot-separated labels), a path     *)
(* (its slash-separated segments) and a query string (its name=value       *)
(* pairs, none in a link).  A segment is a word followed by an             *)
(* optional run of digits: "av12" is [w |-> "av", d |-> TRUE, n |-> 12],   *)
(* "audio" is [w |-> "audio", d |-> FALSE, n |-> 0], "123" has w = "".     *)
(* Every character of a segment of a link is a \w character; a host label *)
(* has no dot and a segment no slash.                                      *)

Seg(w) == [w |-> w, d |-> FALSE, n |-> 0]
SegN(w, n) == [w |-> w, d |-> TRUE, n |-> n]
Url(scheme, host, path) ==
    [scheme |-> scheme, host |-> host, path |-> path, query |-> << >>]
Www == << "www", "bilibili", "com" >>

\* None, by the kind of value it stands in for: a cache row, a link, a
\* match object, a returned value, a payload and its body, a query, the
\* parameters of one, a feed, a frame, the links of a chat, the input and
\* the output of a pure step.
None ==
    [row |-> [none |-> TRUE],
     url |-> Url("", << "-" >>, << >>),
     match |-> [ok |-> FALSE, n |-> 0, kind |-> "", w |-> ""],
     val |-> [tag |-> "none"],
     body |-> [none |-> TRUE],
     payload |-> [ep |-> "", key |-> << 0, 0 >>, data |-> "absent", body |-> [none |-> TRUE]],
     query |-> [join |-> "AND", conds |-> [none |-> 0]],
     params |-> [kind |-> "", val |-> 0],
     feed |-> [tag |-> "none"],
     frame |-> [none |-> TRUE],
     env |-> [links |-> {}, eps |-> {}],
     pin |-> [none |-> TRUE],
     pout |-> [none |-> TRUE]]

\* The last character of each host label used in the model.
LastChar(label) ==
    CASE label = "t" -> "t"
      [] label = "h" -> "h"
      [] label = "search" -> "h"
      [] label = "live" -> "e"
      [] label = "api" -> "i"
      [] label = "www" -> "w"
      [] label = "vc" -> "c"
      [] label = "bilibili" -> "i"
      [] label = "com" -> "m"
      [] label = "b23" -> "3"
      [] label = "tv" -> "v"
      [] OTHER -> "?"

\* Positions i of the host where the labels i, i+1 read "<label>.bilibili.com".
BiliComAt(url) ==
    {i \in 1..Len(url.host) :
        /\ i + 2 <= Len(url.host)
        /\ url.host[i + 1] = "bilibili"
        /\ url.host[i + 2] = "com"}

\* "bilibili\.com/" : the host ends in bilibili.com and a path follows.
BiliComSlash(url) ==
    /\ Len(url.host) >= 2
    /\ url.host[Len(url.host) - 1] = "bilibili"
    /\ url.host[Len(url.host)] = "com"
    /\ Len(url.path) >= 1

\* re.search(r"api\..*\.bilibili", url), line 826: "api." and, after it,
\* a dot of its own followed by "bilibili".
IsApiUrl(url) ==
    \E i, j \in 1..Len(url.host) :
        /\ url.host[i] = "api"
        /\ j >= i + 2
        /\ url.host[j] = "bilibili"

\* re.search(r"[th]\.bilibili\.com", url), line 829.
IsDynamicUrl(url) ==
    \E i \in BiliComAt(url) : LastChar(url.host[i]) \in {"t", "h"}

\* re.search(r"live\.bilibili\.com", url), line 832.
IsLiveUrl(url) ==
    \E i \in BiliComAt(url) : url.host[i] = "live"

\* re.search(r"bilibili\.com/audio", url), line 835.
IsAudioUrl(url) ==
    BiliComSlash(url) /\ url.path[1].w = "audio"

\* re.search(r"bilibili\.com/read", url), line 838.
IsReadUrl(url) ==
    BiliComSlash(url) /\ url.path[1].w = "read"

\* re.search(r"bilibili\.com/(?:video|bangumi/play)", url), line 841.
IsVideoUrl(url) ==
    /\ BiliComSlash(url)
    /\ \/ url.path[1].w = "video"
       \/ /\ Len(url.path) >= 2
          /\ url.path[1] = Seg("bangumi")
          /\ url.path[2].w = "play"

\* A dispatcher that looks for the status-update domain before the API
\* subdomain.
FeedRoute_dynamic_first(url) ==
    IF IsDynamicUrl(url) THEN "dynamic_parser"
    ELSE IF IsApiUrl(url) THEN "none"
    ELSE IF IsLiveUrl(url) THEN "live_parser"
    ELSE IF IsAudioUrl(url) THEN "audio_parser"
    ELSE IF IsReadUrl(url) THEN "read_parser"
    ELSE IF IsVideoUrl(url) THEN "video_parser"
    ELSE "none"

\* The resolver feed_parser hands the canonical url to, lines 825-843;
\* "none" when it falls through to raise ParserException("URL错误", url).
FeedRoute(url) ==
    IF IsApiUrl(url) THEN "none"
    ELSE IF IsDynamicUrl(url) THEN "dynamic_parser"
    ELSE IF IsLiveUrl(url) THEN "live_parser"
    ELSE IF IsAudioUrl(url) THEN "audio_parser"
    ELSE IF IsReadUrl(url) THEN "read_parser"
    ELSE IF IsVideoUrl(url) THEN "video_parser"
    ELSE "none"


-----------------------------------------------------------------------------
(* The cache store.  db[table] is a set of rows; every row carries the     *)
(* key columns of its table, its content and its created stamp.  A key     *)
(* column holding 0 stands for Python's None / SQL NULL.                   *)

Tables == {"audio", "bangumi", "dynamic", "live", "read", "reply", "video"}


\* The time-to-live of each table (database.<table>_cache.timeout), in ticks.
timeout == [audio |-> 2, bangumi |-> 1, dynamic |-> 2, live |-> 1,
            read |-> 3, reply |-> 1, video |-> 2]

\* The key columns of each table.
KeyCols == [audio |-> {"audio_id"}, bangumi |-> {"epid", "ssid"},
            dynamic |-> {"dynamic_id", "rid"}, live |-> {"room_id"},
            read |-> {"read_id"}, reply |-> {"oid", "reply_type"},
            video |-> {"aid", "bvid"}]

\* Whether row new may not be inserted beside row old: the comment table
\* is keyed by the pair (oid, reply_type), every other table by each of its
\* key columns.
Conflict(table, old, new) ==
    IF table = "reply"
    THEN old.oid = new.oid /\ old.reply_type = new.reply_type
    ELSE \E c \in KeyCols[table] : old[c] = new[c]

\* A query Q(...): the conditions on key columns, joined by AND or by OR.
Q(join, conds) == [join |-> join, conds |-> conds]

Matches(row, query) ==
    IF query.join = "OR"
    THEN \E c \in DOMAIN query.conds : query.conds[c] # 0 /\ row[c] = query.conds[c]
    ELSE \A c \in DOMAIN query.conds : query.conds[c] # 0 /\ row[c] = query.conds[c]

\* Q(created__gte=timezone.now() - <table>_cache.timeout), where t is what
\* timezone.now() gave when the filter was built.
Fresh(row, t, ttl) == row.created >= t - ttl

\* Model.get_or_none(query): the row matching, None.row when there is none;
\* more than one match raises MultipleObjectsReturned.
get_or_none(rows, query) ==
    LET found == {r \in rows : Matches(r, query)}
    IN  IF found = {} THEN [exc |-> "", row |-> None.row]
        ELSE IF Cardinality(found) = 1
             THEN [exc |-> "", row |-> CHOOSE r \in found : TRUE]
             ELSE [exc |-> "MultipleObjectsReturned", row |-> None.row]

\* Model.get_or_none(query, Q(created__gte=t - ttl))
get_fresh_or_none(rows, query, t, ttl) ==
    get_or_none({r \in rows : Fresh(r, t, ttl)}, query)

\* cache.content = content; cache.save(update_fields=["content", "created"]):
\* an UPDATE of the row with the primary key of cache (created is auto_now).
SaveUpdate(table, rows, cache, content) ==
    {IF \A c \in KeyCols[table] : r[c] = cache[c]
     THEN [r EXCEPT !.content = content, !.created = now]
     ELSE r : r \in rows}

\* Model(**keys, content=content).save(): an INSERT, refused with
\* IntegrityError when a row with the same key is there.
SaveInsert(table, rows, new) ==
    IF \E r \in rows : Conflict(table, r, new)
    THEN [exc |-> "IntegrityError", rows |-> rows]
    ELSE [exc |-> "", rows |-> rows \cup {[new EXCEPT !.created = now]}]

EmptyDb == [t \in Tables |-> {}]

-----------------------------------------------------------------------------
(* The upstream services.  upstream[e] is what endpoint e answers now: a   *)
(* payload whose data key holds version "v1" or "v2" of the data, is       *)
(* "empty" (the key holds {}, a dict that is falsy), is "absent" (the      *)
(* payload has no such key) or is "null" (the key holds a falsy value      *)
(* that is no dict: None, [], "").  A request treats "null" as it treats   *)
(* "absent", so the services of the model answer with the latter; the two  *)
(* differ where a cached payload is subscripted.                           *)

Endpoints == {"dynamic", "audio", "audiourl", "live", "season", "view",
              "read", "reply", "telegraph"}
Versions == {"v1", "v2"}

Payload(ep, key, data, body) == [ep |-> ep, key |-> key, data |-> data, body |-> body]

\* r.get("data") is truthy
Valid(p) == p.data \in Versions

\* The status updates the platform holds: dynamic_id -> desc and card.
\* type and orig_type are the platform's content-type codes; the card
\* carries the ids of the embedded content.
Desc(dynamic_id, rid, type, orig_type) ==
    [dynamic_id |-> dynamic_id, rid |-> rid, type |-> type, orig_type |-> orig_type]
Card(id, roomid, aid, new_desc) ==
    [id |-> id, roomid |-> roomid, aid |-> aid, new_desc |-> new_desc]

DynamicIds == {11, 12, 13, 14}
DynamicBody(d) ==
    CASE d = 11 -> [desc |-> Desc(11, 1, 2, 0), card |-> Card(0, 0, 0, "")]
      [] d = 12 -> [desc |-> Desc(12, 2, 256, 0), card |-> Card(1, 0, 0, "")]
      [] d = 13 -> [desc |-> Desc(13, 3, 1, 8), card |-> Card(0, 0, 1, "")]
      [] OTHER  -> [desc |-> Desc(d, 4, 2024, 0), card |-> Card(0, 0, 0, "")]

\* get_dynamic_detail?rid=r&type=2 : the status update with that rid.
DynamicOfRid(r) ==
    IF \E d \in DynamicIds : DynamicBody(d).desc.rid = r
    THEN CHOOSE d \in DynamicIds : DynamicBody(d).desc.rid = r
    ELSE 0

\* x/web-interface/view : a video has one aid and one bvid.
BvidOf(aid) == aid + 100
AidOf(bvid) == bvid - 100

\* pgc/view/web/season : the one season, with its episodes in order.
SeasonBody == [season_id |-> 1,
               episodes |-> << [id |-> 1, aid |-> 1], [id |-> 2, aid |-> 2] >>]

-----------------------------------------------------------------------------
(* The link patterns of the resolvers.  Each gives ok and what the groups  *)
(* of the match hold.                                                      *)


\* The segments "/<digits>" of a path, for the pattern [\/\w]*\/(\d+): the
\* greedy [\/\w]* leaves the last of them to the group.
NumberSegs(url) == {j \in 1..Len(url.path) : url.path[j].w = "" /\ url.path[j].d}
LastNumber(url) ==
    LET j == CHOOSE k \in NumberSegs(url) : \A m \in NumberSegs(url) : m <= k
    IN  url.path[j].n

\* re.search(r"[th]\.bilibili\.com[\/\w]*\/(\d+)", url), line 384.  At a
\* place of [th].bilibili.com that a dot follows the rest of the pattern
\* fails and the search goes on to the next place; it matches at the place
\* that ends the host.  kind tells whether "h.bilibili.com" is in
\* match.group(0), line 402.
DynamicMatch(url) ==
    LET i == Len(url.host) - 2
    IN  IF /\ i \in BiliComAt(url)
           /\ LastChar(url.host[i]) \in {"t", "h"}
           /\ NumberSegs(url) # {}
        THEN [ok |-> TRUE, n |-> LastNumber(url),
              kind |-> IF LastChar(url.host[i]) = "h" THEN "h" ELSE "t", w |-> ""]
        ELSE None.match

\* "type=2" in match.group(0), lines 389 and 402: the pattern matches no "=",
\* so match.group(0) never holds "type=2".
TypeTwo(url) == FALSE

\* re.search(r"bilibili\.com\/audio\/au(\d+)", url), line 518.
AudioMatch(url) ==
    IF /\ BiliComSlash(url)
       /\ Len(url.path) >= 2
       /\ url.path[1] = Seg("audio")
       /\ url.path[2].w = "au" /\ url.path[2].d
    THEN [ok |-> TRUE, n |-> url.path[2].n, kind |-> "au", w |-> "au"]
    ELSE None.match

\* re.search(r"live\.bilibili\.com[\/\w]*\/(\d+)", url), line 572.
LiveMatch(url) ==
    IF /\ \E i \in BiliComAt(url) : url.host[i] = "live" /\ i + 2 = Len(url.host)
       /\ NumberSegs(url) # {}
    THEN [ok |-> TRUE, n |-> LastNumber(url), kind |-> "live", w |-> ""]
    ELSE None.match

\* The id segment (?:(?P<bvid>bv\w+)|av(?P<aid>\d+)|ep(?P<epid>\d+)|ss(?P<ssid>\d+)),
\* case-insensitive; kind names the group that matched, w holds the letters
\* of the segment as the link writes them.
VideoIdSeg(seg) ==
    IF ~seg.d THEN None.match
    ELSE IF seg.w \in {"bv", "BV"} THEN [ok |-> TRUE, n |-> seg.n, kind |-> "bvid", w |-> seg.w]
    ELSE IF seg.w \in {"av", "AV"} THEN [ok |-> TRUE, n |-> seg.n, kind |-> "aid", w |-> seg.w]
    ELSE IF seg.w \in {"ep", "EP"} THEN [ok |-> TRUE, n |-> seg.n, kind |-> "epid", w |-> seg.w]
    ELSE IF seg.w \in {"ss", "SS"} THEN [ok |-> TRUE, n |-> seg.n, kind |-> "ssid", w |-> seg.w]
    ELSE None.match

ShortHost(url) ==
    /\ Len(url.host) >= 2
    /\ url.host[Len(url.host)] = "tv"
    /\ url.host[Len(url.host) - 1] \in {"b23", "acg"}

\* re.search(r"(?i)(?:bilibili\.com/(?:video|bangumi/play)|b23\.tv|acg\.tv)/(?:...)",
\* url), lines 613-618.
VideoMatch(url) ==
    IF BiliComSlash(url) /\ Len(url.path) >= 2 /\ url.path[1] = Seg("video")
    THEN VideoIdSeg(url.path[2])
    ELSE IF /\ BiliComSlash(url) /\ Len(url.path) >= 3
            /\ url.path[1] = Seg("bangumi") /\ url.path[2] = Seg("play")
    THEN VideoIdSeg(url.path[3])
    ELSE IF ShortHost(url) /\ Len(url.path) >= 1
    THEN VideoIdSeg(url.path[1])
    ELSE None.match

\* re.search(r"bilibili\.com\/read\/(?:cv|mobile\/)(\d+)", url), line 746.
ReadMatch(url) ==
    IF BiliComSlash(url) /\ Len(url.path) >= 2 /\ url.path[1] = Seg("read")
    THEN IF url.path[2].w = "cv" /\ url.path[2].d
         THEN [ok |-> TRUE, n |-> url.path[2].n, kind |-> "cv", w |-> "cv"]
         ELSE IF /\ url.path[2] = Seg("mobile") /\ Len(url.path) >= 3
                 /\ url.path[3].w = "" /\ url.path[3].d
         THEN [ok |-> TRUE, n |-> url.path[3].n, kind |-> "mobile", w |-> ""]
         ELSE None.match
    ELSE None.match

\* str(r.url) after client.get(url) has followed the redirects, lines
\* 822-823: the short links of b23.tv lead to the video page.
Canonical(url) ==
    IF ShortHost(url) /\ Len(url.path) >= 1
    THEN Url("https:", << "www", "bilibili", "com" >>, << Seg("video") >> \o url.path)
    ELSE url

\* f"http://{url}" if not url.startswith(("http:", "https:")) else url, line 874.
Normalize(url) ==
    IF url.scheme \in {"http:", "https:"} THEN url ELSE [url EXCEPT !.scheme = "http:"]

-----------------------------------------------------------------------------
(* Values: feeds, error values, frames.                                    *)

Pending == [tag |-> "pending"]

\* An exception object: its class, its message and the url it carries
\* (None.url for every class but ParserException).
Err(exc, msg, url) == [tag |-> "err", exc |-> exc, msg |-> msg, url |-> url]
IsErr(v) == "tag" \in DOMAIN v /\ v.tag = "err"
IsFeed(v) == "tag" \in DOMAIN v /\ v.tag = "feed"

\* class feed and its variants, lines 58-333.  id is the identity of the
\* variant (dynamic_id, audio_id, room_id, aid, read_id), info the payload
\* its fields were filled from, sub the kind of the embedded feed a status
\* update copied its fields from, media the data of the playable urls the
\* media urls of an audio feed were set from ("" when they were set from
\* something else or not at all), reply the replycontent attribute: << >>
\* while the attribute is not set.
feed(kind, rawurl) ==
    [tag |-> "feed", kind |-> kind, rawurl |-> rawurl, id |-> 0, rid |-> 0,
     sid |-> 0, info |-> None.payload, sub |-> "", media |-> "", reply |-> << >>]

\* f.url, the canonical link of a feed: the url property of each variant
\* (lines 287-289, 298-300, 307-309, 321-323, 331-333) formats the identity
\* the feed has when the property is first read; class feed gives rawurl
\* (lines 162-164).
feed_url(f) ==
    CASE f.kind = "dynamic" ->
            Url("https:", << "t", "bilibili", "com" >>, << SegN("", f.id) >>)
      [] f.kind = "audio" -> Url("https:", Www, << Seg("audio"), SegN("au", f.id) >>)
      [] f.kind = "live" ->
            Url("https:", << "live", "bilibili", "com" >>, << SegN("", f.id) >>)
      [] f.kind = "video" -> Url("https:", Www, << Seg("video"), SegN("av", f.id) >>)
      [] f.kind = "read" -> Url("https:", Www, << Seg("read"), SegN("cv", f.id) >>)
      [] OTHER -> f.rawurl

\* A coroutine frame of one resolver call under safe_parser: the function,
\* the await it is suspended at, the run of the body it is in, its
\* arguments and its locals.  t0 is what timezone.now() gave when the body
\* built the filter of the lookup it awaits, page the version of the
\* article page read_parser fetched, imgs where the relink task of each of
\* its images is.  ops lists what the current run of the body did, hist the
\* earlier runs of this call.
Frame(fn, url, oid, rtype) ==
    [fn |-> fn, pc |-> "start", attempt |-> 1, url |-> url, oid |-> oid,
     rtype |-> rtype, params |-> None.params, epid |-> 0, query |-> None.query,
     cache |-> None.row, content |-> None.payload, f |-> None.feed, t0 |-> 0,
     page |-> "", imgs |-> << >>, ops |-> << >>, hist |-> << >>]

Top(stk) == stk[Len(stk)]
Pop(stk) == SubSeq(stk, 1, Len(stk) - 1)
SetTop(stk, fr) == [stk EXCEPT ![Len(stk)] = fr]

-----------------------------------------------------------------------------
(* class dynamic, lines 167-290, and the dispatch of dynamic_parser.        *)

has_forward(body) == body.desc.orig_type # 0
forward_type(body) == body.desc.type
origin_type(body) ==
    IF has_forward(body) THEN body.desc.orig_type ELSE forward_type(body)

\* A reply type taken from the type of the content: for a repost, the type
\* of what it forwards.
reply_type_of_origin(body) ==
    LET ft == origin_type(body)
    IN  IF ft = 2 THEN 11
        ELSE IF ft = 16 THEN 5
        ELSE IF ft = 64 THEN 12
        ELSE IF ft = 256 THEN 14
        ELSE IF ft \in {8, 512} \cup (4000..4199) THEN 1
        ELSE IF ft \in {1, 4} \cup (4200..4299) \cup (2048..2099) THEN 17
        ELSE 0

\* dynamic.reply_type, lines 197-210; 0 is None.
reply_type(body) ==
    LET ft == forward_type(body)
    IN  IF ft = 2 THEN 11
        ELSE IF ft = 16 THEN 5
        ELSE IF ft = 64 THEN 12
        ELSE IF ft = 256 THEN 14
        ELSE IF ft \in {8, 512} \cup (4000..4199) THEN 1
        ELSE IF ft \in {1, 4} \cup (4200..4299) \cup (2048..2099) THEN 17
        ELSE 0

\* dynamic.oid, lines 212-217.
oid(body) ==
    IF forward_type(body) \in {1, 4} \cup (4200..4299) \cup (2048..2099)
    THEN body.desc.dynamic_id
    ELSE body.desc.rid

\* A table with 2 and 8 exchanged: 2 among the videos, 8 the picture.
detail_types_swapped ==
    [WORD |-> {1, 4}, PIC |-> {8}, VIDEO |-> {2, 512} \cup (4000..4199),
     CLIP |-> {16}, ARTICLE |-> {64}, MUSIC |-> {256}, LIVE |-> 4200..4299,
     SHARE |-> 2048..2099, EPS |-> {512} \cup (4000..4199),
     NONE |-> {2024} \cup (4300..4399)]

\* A table that takes the types of its NONE entry for live rooms.
detail_types_none_live ==
    [WORD |-> {1, 4}, PIC |-> {2}, VIDEO |-> {8, 512} \cup (4000..4199),
     CLIP |-> {16}, ARTICLE |-> {64}, MUSIC |-> {256},
     LIVE |-> (4200..4299) \cup {2024} \cup (4300..4399),
     SHARE |-> 2048..2099, EPS |-> {512} \cup (4000..4199),
     NONE |-> {2024} \cup (4300..4399)]

\* detail_types_list, lines 421-437.
detail_types_list ==
    [WORD |-> {1, 4}, PIC |-> {2}, VIDEO |-> {8, 512} \cup (4000..4199),
     CLIP |-> {16}, ARTICLE |-> {64}, MUSIC |-> {256}, LIVE |-> 4200..4299,
     SHARE |-> 2048..2099, EPS |-> {512} \cup (4000..4199),
     NONE |-> {2024} \cup (4300..4399)]

\* The urls dynamic_parser builds for its sub-resolvers, lines 448-460; an
\* id the card lacks (0) is formatted as "None".
NumOrNone(w, n) == IF n = 0 THEN Seg(w \o "None") ELSE SegN(w, n)
SubUrl(fn, card) ==
    CASE fn = "audio_parser" ->
            Url("", << "bilibili", "com" >>, << Seg("audio"), NumOrNone("au", card.id) >>)
      [] fn = "live_parser" ->
            Url("", << "live", "bilibili", "com" >>, << NumOrNone("", card.roomid) >>)
      [] fn = "video_parser" ->
            Url("", << "b23", "tv" >>, << NumOrNone("av", card.aid) >>)
      [] fn = "read_parser" ->
            Url("", << "bilibili", "com" >>, << Seg("read"), NumOrNone("cv", card.id) >>)

\* The branch dynamic_parser takes on origin_type, lines 440-506: the
\* template, and the sub-resolver it calls with which url (fn = "" when it
\* calls none).
DynamicDispatch(body) ==
    LET o == origin_type(body)
        t == detail_types_list
        none == [fn |-> "", url |-> None.url]
    IN  IF o \in t.MUSIC \cup t.VIDEO \cup t.LIVE \cup t.ARTICLE
        THEN IF o \in t.MUSIC
             THEN [branch |-> "MUSIC", fn |-> "audio_parser", url |-> SubUrl("audio_parser", body.card)]
             ELSE IF o \in t.LIVE
             THEN [branch |-> "LIVE", fn |-> "live_parser", url |-> SubUrl("live_parser", body.card)]
             ELSE IF o \in t.VIDEO
             THEN [branch |-> "VIDEO", fn |-> "video_parser", url |-> SubUrl("video_parser", body.card)]
             ELSE IF o \in t.ARTICLE
             THEN [branch |-> "ARTICLE", fn |-> "read_parser", url |-> SubUrl("read_parser", body.card)]
             ELSE [branch |-> "NOSUB"] @@ none
        ELSE IF o \in t.PIC \cup t.CLIP
        THEN [branch |-> IF o \in t.PIC THEN "PIC" ELSE "CLIP"] @@ none
        ELSE IF o \in t.WORD
        THEN [branch |-> "WORD"] @@ none
        ELSE IF o \in t.SHARE
        THEN [branch |-> "SHARE"] @@ none
        ELSE [branch |-> "UNKNOWN"] @@ none

-----------------------------------------------------------------------------
(* The resolvers.  What each does between two awaits is one step; a call   *)
(* of one resolver by another and its return are not awaits of their own.  *)

\* The start of a resolver body, up to its first await: the link pattern
\* and the setup of the feed and of the cache query.  The arguments of the
\* lookup, timezone.now() among them, are evaluated before it is awaited.
Enter(fr) ==
    LET bad(msg) == [ok |-> FALSE, frame |-> fr, exc |-> Err("ParserException", msg, fr.url)]
        good(frame) == [ok |-> TRUE, exc |-> None.val,
                        frame |-> IF frame.pc \in {"lookup", "blookup"}
                                  THEN [frame EXCEPT !.t0 = now] ELSE frame]
    IN
    CASE fr.fn = "feed_parser" ->
            good([fr EXCEPT !.pc = "get"])
      [] fr.fn = "reply_parser" ->
            \* line 357
            good([fr EXCEPT !.pc = "lookup",
                    !.query = Q("AND", [oid |-> fr.oid, reply_type |-> fr.rtype])])
      [] fr.fn = "dynamic_parser" ->
            \* lines 384-391
            LET m == DynamicMatch(fr.url)
            IN  IF ~m.ok THEN bad("dynamic link error")
                ELSE good([fr EXCEPT !.pc = "lookup",
                    !.f = feed("dynamic", fr.url),
                    !.query = IF TypeTwo(fr.url)
                              THEN Q("AND", [rid |-> m.n])
                              ELSE Q("AND", [dynamic_id |-> m.n]),
                    !.params = IF TypeTwo(fr.url) \/ m.kind = "h"
                               THEN [kind |-> "rid", val |-> m.n]
                               ELSE [kind |-> "dynamic_id", val |-> m.n]])
      [] fr.fn = "audio_parser" ->
            \* lines 518-523
            LET m == AudioMatch(fr.url)
            IN  IF ~m.ok THEN bad("audio link error")
                ELSE good([fr EXCEPT !.pc = "lookup",
                    !.f = [feed("audio", fr.url) EXCEPT !.id = m.n],
                    !.query = Q("AND", [audio_id |-> m.n])])
      [] fr.fn = "live_parser" ->
            \* lines 572-577
            LET m == LiveMatch(fr.url)
            IN  IF ~m.ok THEN bad("live link error")
                ELSE good([fr EXCEPT !.pc = "lookup",
                    !.f = [feed("live", fr.url) EXCEPT !.id = m.n],
                    !.query = Q("AND", [room_id |-> m.n])])
      [] fr.fn = "video_parser" ->
            \* lines 613-637 and 669-672
            LET m == VideoMatch(fr.url)
            IN  IF ~m.ok THEN bad("video link error")
                ELSE IF m.kind \in {"epid", "ssid"}
                THEN good([fr EXCEPT !.pc = "blookup",
                    !.f = feed("video", fr.url),
                    !.epid = IF m.kind = "epid" THEN m.n ELSE 0,
                    !.params = [kind |-> IF m.kind = "epid" THEN "ep_id" ELSE "season_id",
                                val |-> m.n],
                    !.query = Q("OR", [epid |-> IF m.kind = "epid" THEN m.n ELSE 0,
                                       ssid |-> IF m.kind = "ssid" THEN m.n ELSE 0])])
                ELSE good([fr EXCEPT !.pc = "lookup",
                    !.f = feed("video", fr.url),
                    !.params = [kind |-> m.kind, val |-> m.n],
                    !.query = Q("OR", [aid |-> IF m.kind = "aid" THEN m.n ELSE 0,
                                       bvid |-> IF m.kind = "bvid" THEN m.n ELSE 0])])
      [] OTHER ->
            \* read_parser, lines 746-750
            LET m == ReadMatch(fr.url)
            IN  IF ~m.ok THEN bad("read link error")
                ELSE good([fr EXCEPT !.pc = "page",
                    !.f = [feed("read", fr.url) EXCEPT !.id = m.n],
                    !.query = Q("AND", [read_id |-> m.n])])

\* The cache stage a frame is in: video_parser first goes through the
\* season cache (its steps are named b...), then through the view cache.
InSeasonStage(fr) ==
    fr.fn = "video_parser" /\ fr.pc \in {"blookup", "bfetch", "bquery", "bsave"}

\* BILI_API of module utils, which biliparser.py imports: the host of the API.
BILI_API == << "api", "bilibili", "com" >>

\* str(r.url) of the response to the request a frame makes after a cache
\* miss: the url of the endpoint with the parameters of the request.
Request(fr) ==
    LET to(host, path, query) == [Url("https:", host, path) EXCEPT !.query = query]
    IN
    CASE fr.fn = "dynamic_parser" ->
            \* lines 399-404
            to(<< "api", "vc", "bilibili", "com" >>,
               << Seg("dynamic_svr"), Seg("v1"), Seg("dynamic_svr"), Seg("get_dynamic_detail") >>,
               IF fr.params.kind = "rid"
               THEN << << "rid", SegN("", fr.params.val) >>, << "type", SegN("", 2) >> >>
               ELSE << << "dynamic_id", SegN("", fr.params.val) >> >>)
      [] fr.fn = "audio_parser" ->
            \* lines 530-533
            to(BILI_API, << Seg("audio"), Seg("music-service-c"), Seg("songs"), Seg("playing") >>,
               << << "song_id", SegN("", fr.f.id) >> >>)
      [] fr.fn = "live_parser" ->
            \* lines 584-587
            to(<< "api", "live", "bilibili", "com" >>,
               << Seg("xlive"), Seg("web-room"), Seg("v1"), Seg("index"), Seg("getInfoByRoom") >>,
               << << "room_id", SegN("", fr.f.id) >> >>)
      [] OTHER ->
            \* video_parser, lines 679-682: bvid is the group of the link,
            \* letters included
            to(BILI_API, << Seg("x"), Seg("web-interface"), Seg("view") >>,
               << << fr.params.kind,
                     SegN(IF fr.params.kind = "bvid" THEN VideoMatch(fr.url).w ELSE "",
                          fr.params.val) >> >>)

\* The upstream answer a frame fetches after a cache miss.
Fetched(fr) ==
    CASE fr.fn = "reply_parser" ->
            \* lines 363-368; the endpoint has no thread for type None
            Payload("reply", << fr.oid, fr.rtype >>,
                    IF fr.rtype = 0 THEN "absent" ELSE upstream.reply, None.body)
      [] fr.fn = "dynamic_parser" ->
            \* lines 399-405
            LET d == IF fr.params.kind = "rid" THEN DynamicOfRid(fr.params.val)
                     ELSE fr.params.val
            IN  IF d \in DynamicIds
                THEN Payload("dynamic", << d, 0 >>, upstream.dynamic, DynamicBody(d))
                ELSE Payload("dynamic", << d, 0 >>, "empty", None.body)
      [] fr.fn = "audio_parser" ->
            \* lines 530-534
            Payload("audio", << fr.f.id, 0 >>, upstream.audio, None.body)
      [] fr.fn = "live_parser" ->
            \* lines 584-588
            Payload("live", << fr.f.id, 0 >>, upstream.live, None.body)
      [] InSeasonStage(fr) ->
            \* lines 643-647
            IF \/ fr.params.kind = "season_id" /\ fr.params.val = SeasonBody.season_id
               \/ /\ fr.params.kind = "ep_id"
                  /\ \E i \in DOMAIN SeasonBody.episodes :
                        SeasonBody.episodes[i].id = fr.params.val
            THEN Payload("season", << SeasonBody.season_id, 0 >>, upstream.season, SeasonBody)
            ELSE Payload("season", << 0, 0 >>, "absent", None.body)
      [] fr.fn = "video_parser" ->
            \* lines 679-684
            LET aid == IF fr.params.kind = "aid" THEN fr.params.val
                       ELSE AidOf(fr.params.val)
            IN  Payload("view", << aid, 0 >>, upstream.view,
                        [aid |-> aid, bvid |-> BvidOf(aid)])
      [] OTHER ->
            \* read_parser, lines 784-807: the page published to the mirror
            Payload("telegraph", << fr.f.id, 0 >>, upstream.telegraph, None.body)

\* A check that lets the audio, live and comment resolvers go on with a
\* payload that has no data.
FetchError_lenient(fr, p) ==
    IF fr.fn \in {"audio_parser", "live_parser", "reply_parser"} \/ Valid(p) THEN None.val
    ELSE Err("ParserException", "parse error", fr.url)

\* The exception a fetched payload makes the body raise, None.val when none.
\* ParserException(msg, r.url, ...) carries the url of the request; the
\* season stage raises with the link, and an AttributeError carries no url.
FetchError(fr, p) ==
    CASE fr.fn = "reply_parser" ->
            \* lines 369-370: r is a dict, so r.url raises AttributeError
            IF ~Valid(p) THEN Err("AttributeError", "r.url", None.url) ELSE None.val
      [] fr.fn = "dynamic_parser" ->
            \* lines 406-407: .get("data").get("card") raises AttributeError
            \* when data is no dict
            IF p.data \in {"absent", "null"} THEN Err("AttributeError", "get", None.url)
            ELSE IF ~Valid(p) THEN Err("ParserException", "dynamic parse error", Request(fr))
            ELSE None.val
      [] fr.fn = "audio_parser" ->
            \* lines 535-536
            IF ~Valid(p) THEN Err("ParserException", "audio parse error", Request(fr))
            ELSE None.val
      [] fr.fn = "live_parser" ->
            \* lines 589-590
            IF ~Valid(p) THEN Err("ParserException", "live parse error", Request(fr))
            ELSE None.val
      [] InSeasonStage(fr) ->
            \* lines 648-650: raised with url, the link
            IF ~Valid(p) THEN Err("ParserException", "bangumi parse error", fr.url) ELSE None.val
      [] fr.fn = "video_parser" ->
            \* lines 685-686
            IF ~Valid(p) THEN Err("ParserException", "video parse error", Request(fr))
            ELSE None.val
      [] OTHER -> None.val

\* The exception a cached payload makes the body raise after a hit,
\* None.val when none: the hit branch has no check of its own, the body
\* reads the payload as it is.
HitError(fr, p) ==
    CASE fr.fn = "dynamic_parser" ->
            \* lines 408-409: f.detailcontent["data"]["card"]["desc"]
            IF p.data = "null" THEN Err("TypeError", "subscript", None.url)
            ELSE IF p.data = "absent" THEN Err("KeyError", "data", None.url)
            ELSE IF ~Valid(p) THEN Err("KeyError", "card", None.url)
            ELSE None.val
      [] fr.fn = "audio_parser" ->
            \* line 528, f.infocontent["data"], and line 545, detail.get("mid")
            IF p.data = "absent" THEN Err("KeyError", "data", None.url)
            ELSE IF p.data = "null" THEN Err("AttributeError", "get", None.url)
            ELSE None.val
      [] InSeasonStage(fr) ->
            \* lines 648-650: the check follows both branches
            FetchError(fr, p)
      [] OTHER -> None.val

\* The aid video_parser picks from a season, lines 652-658: the aid of the
\* episode with the requested id, else the aid of the last episode, whose id
\* then stands for epid.
\* A choice that falls back on the first episode of the season.
PickEpisode_first(fr, body) ==
    LET eps == body.episodes
        match == {i \in DOMAIN eps : fr.epid # 0 /\ eps[i].id = fr.epid}
    IN  IF match # {}
        THEN [aid |-> eps[CHOOSE i \in match : TRUE].aid, epid |-> fr.epid]
        ELSE [aid |-> eps[1].aid, epid |-> eps[1].id]

PickEpisode(fr, body) ==
    LET eps == body.episodes
        match == {i \in DOMAIN eps : fr.epid # 0 /\ eps[i].id = fr.epid}
        last == eps[Len(eps)]
    IN  IF match # {} /\ eps[CHOOSE i \in match : \A k \in match : k <= i].aid # 0
        THEN [aid |-> eps[CHOOSE i \in match : \A k \in match : k <= i].aid,
              epid |-> fr.epid]
        ELSE [aid |-> last.aid, epid |-> last.id]

\* What the body takes from the payload, cached or fetched, before it
\* writes the cache.
Prepare(fr, p) ==
    CASE fr.fn = "dynamic_parser" ->
            \* lines 397, 405, 408-409
            [fr EXCEPT !.content = p, !.f.info = p,
                       !.f.id = p.body.desc.dynamic_id, !.f.rid = p.body.desc.rid]
      [] InSeasonStage(fr) ->
            \* lines 641, 647, 651-658
            LET e == PickEpisode(fr, p.body)
            IN  [fr EXCEPT !.content = p, !.f.info = p, !.f.sid = p.body.season_id,
                           !.f.id = e.aid, !.epid = e.epid]
      [] fr.fn = "video_parser" ->
            \* lines 676, 684, 687-691: f.aid is set once detail is there
            [fr EXCEPT !.content = p, !.f.info = p,
                       !.f.id = IF Valid(p) THEN p.body.aid ELSE @]
      [] OTHER ->
            [fr EXCEPT !.content = p, !.f = IF fr.f = None.feed THEN None.feed
                                             ELSE [fr.f EXCEPT !.info = p]]

\* The row the body inserts when the cache has none for its query.
NewRow(fr) ==
    CASE fr.fn = "reply_parser" ->
            \* line 378
            [oid |-> fr.oid, reply_type |-> fr.rtype, content |-> fr.content, created |-> 0]
      [] fr.fn = "dynamic_parser" ->
            \* lines 417-419
            [dynamic_id |-> fr.f.id, rid |-> fr.f.rid, content |-> fr.content, created |-> 0]
      [] fr.fn = "audio_parser" ->
            \* line 544
            [audio_id |-> fr.f.id, content |-> fr.content, created |-> 0]
      [] fr.fn = "live_parser" ->
            \* line 598
            [room_id |-> fr.f.id, content |-> fr.content, created |-> 0]
      [] InSeasonStage(fr) ->
            \* line 666
            [epid |-> fr.epid, ssid |-> fr.f.sid, content |-> fr.content, created |-> 0]
      [] fr.fn = "video_parser" ->
            \* line 699
            [aid |-> fr.f.id, bvid |-> fr.content.body.bvid, content |-> fr.content,
             created |-> 0]
      [] OTHER ->
            \* read_parser, line 814: content is the graphurl column
            [read_id |-> fr.f.id, content |-> fr.content, created |-> 0]

-----------------------------------------------------------------------------
(* safe_parser and the flow of control between the frames of one task.     *)
(* The flow of a task is its stack, what is about to happen in it,         *)
(* whether it is done and with what value, and the calls that finished.    *)

\* A wrapper that answers every exception of the first run by a second run.
safe_parser_any(attempt, exc) ==
    IF attempt = 1 THEN "retry" ELSE "return"

\* safe_parser, lines 336-351: what the wrapper does with an exception of
\* class exc raised by run number attempt of the body.  An IntegrityError of
\* the first run is answered by a second run; everything else is caught and
\* returned as a value.
safe_parser(attempt, exc) ==
    IF attempt = 1 /\ exc = "IntegrityError" THEN "retry" ELSE "return"

\* The summary of a finished call: its function, the runs of the body (what
\* each did and the exception that ended it, "" when it returned) and the
\* class of the error value it gave, "ok" when it gave none.
Summary(fr, exc, v) ==
    [fn |-> fr.fn,
     runs |-> Append(fr.hist, [ops |-> fr.ops, exc |-> exc]),
     out |-> IF IsErr(v) THEN v.exc ELSE "ok"]

\* What is about to happen in a task: nothing (it is suspended at an await
\* or done), a run of the body of frame fr begins, the body of the top
\* frame raises v, the call of the top frame ends with v (after exception
\* exc, "" when the body returned), the caller on top resumes with v, or
\* the cache stage of the top frame is over.
Event(k, fr, exc, v) == [k |-> k, fr |-> fr, exc |-> exc, v |-> v]
Nothing == Event("none", None.frame, "", None.val)
Flow(stk, ev, fin) == [stk |-> stk, ev |-> ev, done |-> FALSE, val |-> None.val, fin |-> fin]

\* A comment call that leaves the reply type out.
CallReply_untyped(fr, id, rtype) ==
    [top |-> [fr EXCEPT !.pc = "reply"],
     ev |-> Event("begin", Frame("reply_parser", None.url, id, 0), "", None.val)]

\* f.replycontent = await reply_parser(client, oid, reply_type)
CallReply(fr, id, rtype) ==
    [top |-> [fr EXCEPT !.pc = "reply"],
     ev |-> Event("begin", Frame("reply_parser", None.url, id, rtype), "", None.val)]

\* fu = await <sub>_parser(client, url), lines 448-460
CallSub(fr, fn, url) ==
    [top |-> [fr EXCEPT !.pc = "sub"],
     ev |-> Event("begin", Frame(fn, url, 0, 0), "", None.val)]

RaiseIn(fr, e) == [top |-> fr, ev |-> Event("raise", None.frame, "", e)]
ReturnFrom(fr, v) == [top |-> fr, ev |-> Event("finish", None.frame, "", v)]

\* A caller that takes whatever the embedded resolver gave for a feed.
Resume_unchecked(fr, v) ==
    CASE fr.pc = "call" -> ReturnFrom(fr, v)
      [] fr.pc = "sub" ->
            CallReply([fr EXCEPT !.f.sub = IF IsFeed(v) THEN v.kind ELSE "error",
                                 !.f.media = IF IsFeed(v) THEN v.media ELSE ""],
                      oid(fr.content.body), reply_type(fr.content.body))
      [] OTHER -> ReturnFrom(fr, [fr.f EXCEPT !.reply = << v >>])

\* The caller fr resumes with the value v of the call it awaited.
Resume(fr, v) ==
    CASE fr.pc = "call" ->
            \* feed_parser: return await <kind>_parser(client, url)
            ReturnFrom(fr, v)
      [] fr.pc = "sub" ->
            \* dynamic_parser, lines 449-473 and 507-512: fu.content of an
            \* exception object raises AttributeError
            IF ~IsFeed(v)
            THEN RaiseIn(fr, Err("AttributeError", "fu.content", None.url))
            ELSE CallReply([fr EXCEPT !.f.sub = v.kind, !.f.media = v.media],
                           oid(fr.content.body), reply_type(fr.content.body))
      [] OTHER ->
            \* pc = "reply": f.replycontent = <value>; return f
            ReturnFrom(fr, [fr.f EXCEPT !.reply = << v >>])

\* The rest of the body of fr once its cache stage is over (the write is
\* done, or a fresh row was found), up to the next await.  The content
\* errors carry f.url.
Rest(fr) ==
    CASE fr.fn = "reply_parser" ->
            \* line 379
            ReturnFrom(fr, fr.content)
      [] fr.fn = "dynamic_parser" ->
            \* lines 440-512
            LET d == DynamicDispatch(fr.content.body)
            IN  IF d.fn # ""
                THEN CallSub(fr, d.fn, d.url)
                ELSE CallReply(fr, oid(fr.content.body), reply_type(fr.content.body))
      [] fr.fn = "audio_parser" ->
            \* lines 545-555: the playable urls are requested every time
            [top |-> [fr EXCEPT !.pc = "media"], ev |-> Nothing]
      [] fr.fn = "live_parser" ->
            \* lines 599-608
            IF ~Valid(fr.content)
            THEN RaiseIn(fr, Err("ParserException", "live content error", feed_url(fr.f)))
            ELSE ReturnFrom(fr, fr.f)
      [] InSeasonStage(fr) ->
            \* lines 667-672: on to the view cache with the aid picked
            [top |-> [fr EXCEPT !.pc = "lookup", !.cache = None.row, !.t0 = now,
                        !.params = [kind |-> "aid", val |-> fr.f.id],
                        !.query = Q("OR", [aid |-> fr.f.id, bvid |-> 0])],
             ev |-> Nothing]
      [] fr.fn = "video_parser" ->
            \* lines 687-688 and 700-717
            IF ~Valid(fr.content)
            THEN RaiseIn(fr, Err("ParserException", "video content error", feed_url(fr.f)))
            ELSE CallReply(fr, fr.f.id, 1)
      [] OTHER ->
            \* read_parser, lines 815-817
            CallReply(fr, fr.f.id, 12)

\* A run of the body of fr starts above the frames of stk, up to its first
\* await: r is what the start of the body gave.
Started(m, r) ==
    IF r.ok THEN [m EXCEPT !.stk = Append(m.stk, r.frame), !.ev = Nothing]
    ELSE [m EXCEPT !.stk = Append(m.stk, m.ev.fr),
                   !.ev = Event("raise", None.frame, "", r.exc)]

\* The body of the top frame fr raised m.ev.v: safe_parser runs the body
\* again, or returns the exception.
Raised(m, fr) ==
    IF safe_parser(fr.attempt, m.ev.v.exc) = "retry"
    THEN [m EXCEPT !.stk = Pop(m.stk),
            !.ev = Event("begin",
                [Frame(fr.fn, fr.url, fr.oid, fr.rtype) EXCEPT
                    !.attempt = fr.attempt + 1,
                    !.hist = Append(fr.hist, [ops |-> fr.ops, exc |-> m.ev.v.exc])],
                "", None.val)]
    ELSE [m EXCEPT !.ev = Event("finish", None.frame, m.ev.v.exc, m.ev.v)]

\* The call of the top frame gives its value to its caller, or ends the task.
Finished(m, fin) ==
    IF Len(m.stk) = 1
    THEN [stk |-> << >>, ev |-> Nothing, done |-> TRUE, val |-> m.ev.v, fin |-> fin]
    ELSE [m EXCEPT !.stk = Pop(m.stk), !.fin = fin,
                   !.ev = Event("deliver", None.frame, "", m.ev.v)]

\* The top frame goes on as c says.
Continued(m, c) == [m EXCEPT !.stk = SetTop(m.stk, c.top), !.ev = c.ev]

\* One event of a task.
Resolve(m) ==
    CASE m.ev.k = "none" -> m
      [] m.ev.k = "begin" -> Started(m, Enter(m.ev.fr))
      [] m.ev.k = "raise" -> Raised(m, Top(m.stk))
      [] m.ev.k = "finish" ->
            Finished(m, m.fin \cup {Summary(Top(m.stk), m.ev.exc, m.ev.v)})
      [] m.ev.k = "deliver" -> Continued(m, Resume(Top(m.stk), m.ev.v))
      [] OTHER -> Continued(m, Rest(Top(m.stk)))

\* A task runs on until it is suspended at an await or done.
RECURSIVE Settle(_)
Settle(m) == IF m.ev.k = "none" THEN m ELSE Settle(Resolve(m))

\* What a step leaves to happen.
Suspend(stk, fin) == Flow(stk, Nothing, fin)
Raise(stk, e, fin) == Flow(stk, Event("raise", None.frame, "", e), fin)
Begin(rest, fr, fin) == Flow(rest, Event("begin", fr, "", None.val), fin)
After(stk, fin) == Flow(stk, Event("after", None.frame, "", None.val), fin)

-----------------------------------------------------------------------------
(* The steps of the cache-aside protocol, shared by the resolvers.  A step *)
(* takes the stack of a task and the tables and gives the outcome of the   *)
(* task, the tables after it and the write it made, if any.                *)

\* The table the cache stage of a frame works on, and the timeout its
\* lookup is filtered with.
CacheOf(fr) ==
    CASE fr.fn = "reply_parser" -> [table |-> "reply", ttl |-> timeout.reply]       \* 358-360
      [] fr.fn = "dynamic_parser" -> [table |-> "dynamic", ttl |-> timeout.dynamic] \* 392-395
      [] fr.fn = "audio_parser" -> [table |-> "audio", ttl |-> timeout.audio]       \* 524-527
      [] fr.fn = "live_parser" -> [table |-> "live", ttl |-> timeout.live]          \* 578-581
      [] InSeasonStage(fr) -> [table |-> "bangumi", ttl |-> timeout.video]          \* 636-639
      [] fr.fn = "video_parser" -> [table |-> "video", ttl |-> timeout.video]       \* 673-674
      [] OTHER -> [table |-> "read", ttl |-> timeout.audio]                         \* 777-780

\* ops of the season stage of video_parser are written with a leading b.
Log(fr, op) ==
    [fr EXCEPT !.ops = Append(@, IF InSeasonStage(fr) THEN "b" \o op ELSE op)]

Outcome(r, tables, writes) == [r |-> r, db |-> tables, writes |-> writes]

\* The upstream answer p was fetched by fr after a miss: e is the exception
\* it makes the body raise.
Missed(stk, tables, fr, p, e) ==
    Outcome(IF e # None.val
            THEN Raise(SetTop(stk, fr), e, {})
            ELSE Suspend(SetTop(stk, [Prepare(fr, p) EXCEPT
                            !.pc = IF InSeasonStage(fr) THEN "bquery" ELSE "query"]), {}),
            tables, << >>)

\* The number of <img> in each version of the article page.
imgs == [v1 |-> 0, v2 |-> 2]

\* read_parser, lines 798-807: the page is published to the mirror with
\* create_page, a blocking call.
Published(stk, tables, fr) ==
    Missed(stk, tables, Log(fr, "fetch"), Fetched(fr), FetchError(fr, Fetched(fr)))

\* The filtered lookup of fr found no fresh row: the body goes on to its
\* request to the upstream service.  read_parser, lines 784-797, starts a
\* task relink(img) for each image of the article and awaits them all;
\* each is suspended at its client.get.  asyncio.gather of no task has
\* nothing to wait for: the page is published before the event loop runs
\* anything else.
NoRow(stk, tables, fr) ==
    IF fr.fn = "read_parser"
    THEN IF imgs[fr.page] = 0
         THEN Published(stk, tables, fr)
         ELSE Outcome(Suspend(SetTop(stk, [fr EXCEPT !.pc = "gather",
                            !.imgs = [i \in 1..imgs[fr.page] |-> "get"]]), {}),
                      tables, << >>)
    ELSE Outcome(Suspend(SetTop(stk, [fr EXCEPT
                    !.pc = IF InSeasonStage(fr) THEN "bfetch" ELSE "fetch"]), {}),
                 tables, << >>)

\* relink, lines 722-744: the await of task i of the images completes,
\* "r = await client.get(...)" (line 729) or "r = await client.post(...)"
\* (line 737).  With the last of them gather returns, line 797, and the
\* page is published.
relink(stk, tables, fr, i) ==
    IF \A k \in DOMAIN fr.imgs : k # i => fr.imgs[k] = "done"
    THEN IF fr.imgs[i] = "post"
         THEN Published(stk, tables, [fr EXCEPT !.imgs[i] = "done"])
         ELSE Outcome(Suspend(SetTop(stk, [fr EXCEPT !.imgs[i] = "post"]), {}), tables, << >>)
    ELSE Outcome(Suspend(SetTop(stk, [fr EXCEPT
                    !.imgs[i] = IF @ = "get" THEN "post" ELSE "done"]), {}),
                 tables, << >>)

\* A lookup whose result is not used: the payload is fetched and written
\* even when a fresh row was found.
Looked_refetch(stk, tables, fr, got) ==
    NoRow(stk, tables, IF got.row # None.row THEN Log(fr, "hit") ELSE Log(fr, "miss"))

\* The filtered lookup of fr gave got.
Looked(stk, tables, fr, got) ==
    IF got.exc # ""
    THEN Outcome(Raise(SetTop(stk, Log(fr, "lookup")),
                       Err(got.exc, "get_or_none", None.url), {}), tables, << >>)
    ELSE IF got.row # None.row
    THEN Outcome(IF HitError(fr, got.row.content) # None.val
                 THEN Raise(SetTop(stk, [Log(fr, "hit") EXCEPT !.cache = got.row]),
                            HitError(fr, got.row.content), {})
                 ELSE After(SetTop(stk, Prepare([Log(fr, "hit") EXCEPT !.cache = got.row],
                                                got.row.content)), {}),
                 tables, << >>)
    ELSE NoRow(stk, tables, Log(fr, "miss"))

\* Step 1: "if cache := await <table>.get_or_none(query, Q(created__gte=...))",
\* the lookup with the freshness filter: the rows are read when the await
\* completes, the window is the one of the time the lookup was issued.
CacheLookup(stk, tables) ==
    Looked(stk, tables, Top(stk),
           get_fresh_or_none(tables[CacheOf(Top(stk)).table], Top(stk).query,
                             Top(stk).t0, CacheOf(Top(stk)).ttl))

\* Step 2: "r = await client.get(...)", the request to the upstream service
\* after a miss, and the check of what it returned.
CacheFetch(stk, tables) ==
    Missed(stk, tables, Log(Top(stk), "fetch"), Fetched(Top(stk)),
           FetchError(Top(stk), Fetched(Top(stk))))

\* The unfiltered lookup of fr gave got.
Queried(stk, tables, fr, got) ==
    Outcome(IF got.exc # ""
            THEN Raise(SetTop(stk, fr), Err(got.exc, "get_or_none", None.url), {})
            ELSE Suspend(SetTop(stk, [fr EXCEPT !.cache = got.row,
                            !.pc = IF InSeasonStage(fr) THEN "bsave" ELSE "save"]), {}),
            tables, << >>)

\* Step 3: "if not cache: if cache := await <table>.get_or_none(query)", the
\* lookup without the freshness filter.
CacheQuery(stk, tables) ==
    Queried(stk, tables, Log(Top(stk), "query"),
            get_or_none(tables[CacheOf(Top(stk)).table], Top(stk).query))

\* cache.content = content; cache.save(...) and the rest of the body.
Updated(stk, tables, fr, table) ==
    Outcome(After(SetTop(stk, Log(fr, "update")), {}),
            [tables EXCEPT ![table] = SaveUpdate(table, @, fr.cache, fr.content)],
            << [table |-> table, ok |-> TRUE, query |-> fr.query, ttl |-> CacheOf(fr).ttl,
                row |-> [fr.cache EXCEPT !.content = fr.content, !.created = now]] >>)

\* <table>_cache(...).save() gave ins, and the rest of the body.
Inserted(stk, tables, fr, table, new, ins) ==
    Outcome(IF ins.exc # ""
            THEN Raise(SetTop(stk, Log(fr, "insert")), Err(ins.exc, "save", None.url), {})
            ELSE After(SetTop(stk, Log(fr, "insert")), {}),
            [tables EXCEPT ![table] = ins.rows],
            << [table |-> table, ok |-> ins.exc = "", query |-> fr.query,
                ttl |-> CacheOf(fr).ttl,
                row |-> [new EXCEPT !.created = now]] >>)

\* Step 4: the write, "await cache.save(...)", an update of the row found or
\* an insert, and the rest of the body up to its next await.
CacheSave(stk, tables) ==
    IF Top(stk).cache # None.row
    THEN Updated(stk, tables, Top(stk), CacheOf(Top(stk)).table)
    ELSE Inserted(stk, tables, Top(stk), CacheOf(Top(stk)).table, NewRow(Top(stk)),
                  SaveInsert(CacheOf(Top(stk)).table, tables[CacheOf(Top(stk)).table],
                             NewRow(Top(stk))))

\* read_parser, lines 750-776: "r = await client.get(...)", the page is
\* fetched and parsed before the cache is read.
PageFetch(stk, tables) ==
    Outcome(IF upstream.read \in Versions
            THEN Suspend(SetTop(stk, [Top(stk) EXCEPT !.pc = "lookup", !.t0 = now,
                                                      !.page = upstream.read]), {})
            ELSE Raise(SetTop(stk, Log(Top(stk), "page")),
                       Err("ParserException", "read uid parse error", Top(stk).url), {}),
            tables, << >>)

\* audio_parser, lines 546-566: "r = await client.get(BILI_API +
\* "/audio/music-service-c/url", ...)", the request for the playable urls,
\* and what the body makes of the answer:
\* f.mediacontent.get("data").get("cdns") raises AttributeError when data is
\* no dict and gives None when it is an empty one.
MediaFetch(stk, tables) ==
    Outcome(IF upstream.audiourl \in {"absent", "null"}
            THEN Raise(stk, Err("AttributeError", "get", None.url), {})
            ELSE Flow(SetTop(stk, CallReply([Top(stk) EXCEPT !.f.media = upstream.audiourl],
                                            Top(stk).f.id, 14).top),
                      CallReply(Top(stk), Top(stk).f.id, 14).ev, {}),
            tables, << >>)

\* feed_parser, lines 822-843.
Routed(stk, tables, url, route) ==
    Outcome(IF route = "none"
            THEN Raise(stk, Err("ParserException", "url error", url), {})
            ELSE Begin(SetTop(stk, [Top(stk) EXCEPT !.pc = "call"]),
                       Frame(route, url, 0, 0), {}),
            tables, << >>)
Dispatch(stk, tables) ==
    Routed(stk, tables, Canonical(Top(stk).url), FeedRoute(Canonical(Top(stk).url)))

\* The step a task with stack stk takes at the await it is suspended at.
AtAwait(stk, tables, fr) ==
    CASE fr.pc = "get" -> Dispatch(stk, tables)
      [] fr.pc = "page" -> PageFetch(stk, tables)
      [] fr.pc \in {"lookup", "blookup"} -> CacheLookup(stk, tables)
      [] fr.pc \in {"fetch", "bfetch"} -> CacheFetch(stk, tables)
      [] fr.pc \in {"query", "bquery"} -> CacheQuery(stk, tables)
      [] fr.pc = "media" -> MediaFetch(stk, tables)
      [] fr.pc = "gather" ->
            relink(stk, tables, fr, CHOOSE i \in DOMAIN fr.imgs :
                        fr.imgs[i] # "done" /\ \A k \in 1..(i - 1) : fr.imgs[k] = "done")
      [] OTHER -> CacheSave(stk, tables)

\* ... and on until its next await.
Onward(o) == [o EXCEPT !.r = Settle(o.r)]
StepOf(stk, tables) == Onward(AtAwait(stk, tables, Top(stk)))

-----------------------------------------------------------------------------
(* The actions: one for each await of each resolver.                       *)


At(t, fn, pc) ==
    /\ t \in DOMAIN stack
    /\ stack[t] # << >>
    /\ Top(stack[t]).fn = fn
    /\ Top(stack[t]).pc = pc

\* The writes remembered: the last one for each key.
Remember(writes, new) ==
    {w \in writes : \A n \in new : ~(w.table = n.table /\ Conflict(n.table, w.row, n.row))}
        \cup new

\* Task t has taken the step s.
Took(t, s) ==
    /\ stack' = [stack EXCEPT ![t] = s.r.stk]
    /\ result' = [result EXCEPT ![t] = IF s.r.done THEN s.r.val ELSE @]
    /\ calls' = calls \cup s.r.fin
    /\ bili' = IF s.r.done THEN [bili EXCEPT !.order = Append(@, t)] ELSE bili
    /\ db' = s.db
    /\ lastWrite' = Remember(lastWrite, {s.writes[i] : i \in DOMAIN s.writes})
    /\ UNCHANGED <<now, upstream, urls, env, pin, pout>>

\* Task t takes its next step.
Run(t) == Took(t, StepOf(stack[t], db))

\* feed_parser, lines 820-843
feed_parser_get(t) == At(t, "feed_parser", "get") /\ Run(t)

\* reply_parser, lines 354-379
reply_parser_lookup(t) == At(t, "reply_parser", "lookup") /\ Run(t)
reply_parser_fetch(t) == At(t, "reply_parser", "fetch") /\ Run(t)
reply_parser_query(t) == At(t, "reply_parser", "query") /\ Run(t)
reply_parser_save(t) == At(t, "reply_parser", "save") /\ Run(t)

\* dynamic_parser, lines 382-513
dynamic_parser_lookup(t) == At(t, "dynamic_parser", "lookup") /\ Run(t)
dynamic_parser_fetch(t) == At(t, "dynamic_parser", "fetch") /\ Run(t)
dynamic_parser_query(t) == At(t, "dynamic_parser", "query") /\ Run(t)
dynamic_parser_save(t) == At(t, "dynamic_parser", "save") /\ Run(t)

\* audio_parser, lines 516-567
audio_parser_lookup(t) == At(t, "audio_parser", "lookup") /\ Run(t)
audio_parser_fetch(t) == At(t, "audio_parser", "fetch") /\ Run(t)
audio_parser_query(t) == At(t, "audio_parser", "query") /\ Run(t)
audio_parser_save(t) == At(t, "audio_parser", "save") /\ Run(t)
audio_parser_media(t) == At(t, "audio_parser", "media") /\ Run(t)

\* live_parser, lines 570-608
live_parser_lookup(t) == At(t, "live_parser", "lookup") /\ Run(t)
live_parser_fetch(t) == At(t, "live_parser", "fetch") /\ Run(t)
live_parser_query(t) == At(t, "live_parser", "query") /\ Run(t)
live_parser_save(t) == At(t, "live_parser", "save") /\ Run(t)

\* video_parser, lines 611-717: the season stage (b...), then the view stage
video_parser_blookup(t) == At(t, "video_parser", "blookup") /\ Run(t)
video_parser_bfetch(t) == At(t, "video_parser", "bfetch") /\ Run(t)
video_parser_bquery(t) == At(t, "video_parser", "bquery") /\ Run(t)
video_parser_bsave(t) == At(t, "video_parser", "bsave") /\ Run(t)
video_parser_lookup(t) == At(t, "video_parser", "lookup") /\ Run(t)
video_parser_fetch(t) == At(t, "video_parser", "fetch") /\ Run(t)
video_parser_query(t) == At(t, "video_parser", "query") /\ Run(t)
video_parser_save(t) == At(t, "video_parser", "save") /\ Run(t)

\* read_parser, lines 720-817
read_parser_page(t) == At(t, "read_parser", "page") /\ Run(t)
read_parser_lookup(t) == At(t, "read_parser", "lookup") /\ Run(t)
read_parser_relink_get(t) ==
    /\ At(t, "read_parser", "gather")
    /\ \E i \in DOMAIN Top(stack[t]).imgs :
          /\ Top(stack[t]).imgs[i] = "get"
          /\ Took(t, Onward(relink(stack[t], db, Top(stack[t]), i)))
read_parser_relink_post(t) ==
    /\ At(t, "read_parser", "gather")
    /\ \E i \in DOMAIN Top(stack[t]).imgs :
          /\ Top(stack[t]).imgs[i] = "post"
          /\ Took(t, Onward(relink(stack[t], db, Top(stack[t]), i)))
read_parser_query(t) == At(t, "read_parser", "query") /\ Run(t)
read_parser_save(t) == At(t, "read_parser", "save") /\ Run(t)

-----------------------------------------------------------------------------
(* biliparser, lines 861-897.                                              *)

Idle == [pc |-> "idle", callbacks |-> << >>, exc |-> "", order |-> << >>]

\* Lines 863-877: a task per url, each started up to its first await.
biliparser_call(us) ==
    /\ bili.pc # "gather"
    /\ urls' = us
    /\ stack' = [i \in DOMAIN us |->
                    Settle(Begin(<< >>, Frame("feed_parser", Normalize(us[i]), 0, 0), {})).stk]
    /\ result' = [i \in DOMAIN us |-> Pending]
    /\ bili' = [Idle EXCEPT !.pc = "gather"]
    /\ calls' = {}
    /\ UNCHANGED <<now, db, upstream, lastWrite, env, pin, pout>>

\* feed.has_comment, lines 112-116: replycontent.get raises AttributeError
\* when replycontent is an exception object.
has_comment(f) ==
    IF f.reply = << >> THEN [exc |-> "", val |-> FALSE]
    ELSE IF IsErr(f.reply[1]) THEN [exc |-> "AttributeError", val |-> FALSE]
    ELSE [exc |-> "", val |-> Valid(f.reply[1])]

\* The exception the log entry of feed f raises, lines 883-896, "" when
\* none: f.comment_markdown reads f.has_comment; f.mediafilename, read after
\* it, searches each media url, and re.search raises TypeError on the None
\* that the setter of mediaurls has wrapped in a list.
LogError(f) ==
    IF has_comment(f).exc # "" THEN has_comment(f).exc
    ELSE IF f.media = "empty" THEN "TypeError"
    ELSE ""

\* asyncio.gather(*tasks), line 878: the results in the order of the tasks,
\* whatever the order they finished in.
gather(res, order) == [i \in 1..Len(order) |-> res[i]]

\* Lines 878-897: gather ends when every task has; then each feed is
\* logged, in the order of the list, and the first entry that raises ends
\* the call.
biliparser_return ==
    /\ bili.pc = "gather"
    /\ \A t \in DOMAIN stack : result[t] # Pending
    /\ LET callbacks == gather(result, bili.order)
           raising == {i \in DOMAIN callbacks :
                         IsFeed(callbacks[i]) /\ LogError(callbacks[i]) # ""}
       IN  bili' = IF raising = {}
                   THEN [bili EXCEPT !.pc = "returned", !.callbacks = callbacks]
                   ELSE [bili EXCEPT !.pc = "raised",
                            !.exc = LogError(callbacks[CHOOSE i \in raising :
                                                          \A k \in raising : i <= k])]
    /\ UNCHANGED <<now, db, upstream, urls, stack, result, calls, lastWrite, env, pin, pout>>

-----------------------------------------------------------------------------
(* The environment: the clock, the upstream services, the links sent.      *)

MaxTime == 3

\* Time passes.
Tick ==
    /\ now < MaxTime
    /\ now' = now + 1
    /\ UNCHANGED <<db, upstream, urls, stack, result, bili, calls, lastWrite, env, pin, pout>>

\* Every endpoint serves version v1 of its data; at most one endpoint at a
\* time serves something else: a newer version, an empty data key, none.
AllV1 == [e \in Endpoints |-> "v1"]
Worlds(eps) ==
    {AllV1} \cup {[AllV1 EXCEPT ![e] = d] : e \in eps, d \in {"v2", "empty", "absent"}}

\* The upstream services change what they answer.
UpstreamUpdate ==
    /\ \E w \in Worlds(env.eps) : w # upstream /\ upstream' = w
    /\ UNCHANGED <<now, db, urls, stack, result, bili, calls, lastWrite, env, pin, pout>>

EpUrl(n) == Url("https:", Www, << Seg("bangumi"), Seg("play"), SegN("ep", n) >>)
TUrl(n) == Url("https:", << "t", "bilibili", "com" >>, << SegN("", n) >>)
Links ==
    [audio |-> Url("https:", Www, << Seg("audio"), SegN("au", 1) >>),
     live |-> Url("https:", << "live", "bilibili", "com" >>, << SegN("", 1) >>),
     av |-> Url("https:", Www, << Seg("video"), SegN("av", 1) >>),
     bv |-> Url("http:", Www, << Seg("video"), SegN("BV", 101) >>),
     short |-> Url("", << "b23", "tv" >>, << SegN("av", 1) >>),
     ss |-> Url("https:", Www, << Seg("bangumi"), Seg("play"), SegN("ss", 1) >>),
     read |-> Url("https:", Www, << Seg("read"), SegN("cv", 1) >>),
     h |-> Url("https:", << "h", "bilibili", "com" >>, << SegN("", 1) >>),
     malformed |-> Url("https:", Www, << Seg("video"), Seg("index") >>),
     unsupported |-> Url("", << "example", "com" >>, << Seg("video"), SegN("av", 1) >>)]

Family(links, eps) == [links |-> links, eps |-> eps]

\* The links of one chat and the endpoints their resolutions reach.
Families ==
    { Family({Links.audio, TUrl(12), Links.malformed}, {"dynamic", "audio", "audiourl", "reply"}),
      Family({TUrl(11), Links.h, TUrl(14)}, {"dynamic", "reply"}),
      Family({Links.av, Links.bv, TUrl(13)}, {"dynamic", "view", "reply"}),
      Family({Links.ss, EpUrl(2), Links.short}, {"season", "view", "reply"}),
      Family({Links.live, Links.read, Links.unsupported}, {"live", "read", "telegraph", "reply"}) }

\* The batches of at most BatchSize links.
BatchSize == 2
Batches(links) == UNION {[1..n -> links] : n \in 1..BatchSize}

Step(t) ==
    \/ feed_parser_get(t)
    \/ reply_parser_lookup(t) \/ reply_parser_fetch(t)
    \/ reply_parser_query(t) \/ reply_parser_save(t)
    \/ dynamic_parser_lookup(t) \/ dynamic_parser_fetch(t)
    \/ dynamic_parser_query(t) \/ dynamic_parser_save(t)
    \/ audio_parser_lookup(t) \/ audio_parser_fetch(t)
    \/ audio_parser_query(t) \/ audio_parser_save(t) \/ audio_parser_media(t)
    \/ live_parser_lookup(t) \/ live_parser_fetch(t)
    \/ live_parser_query(t) \/ live_parser_save(t)
    \/ video_parser_blookup(t) \/ video_parser_bfetch(t)
    \/ video_parser_bquery(t) \/ video_parser_bsave(t)
    \/ video_parser_lookup(t) \/ video_parser_fetch(t)
    \/ video_parser_query(t) \/ video_parser_save(t)
    \/ read_parser_page(t) \/ read_parser_lookup(t)
    \/ read_parser_relink_get(t) \/ read_parser_relink_post(t)
    \/ read_parser_query(t) \/ read_parser_save(t)


-----------------------------------------------------------------------------
(* Spec: one call of biliparser with a batch of links, on an empty cache,  *)
(* while the clock and the upstream services stand still.                  *)

Init ==
    /\ now = 0
    /\ db = EmptyDb
    /\ env \in Families
    /\ upstream \in Worlds(env.eps)
    /\ urls = << >>
    /\ stack = << >>
    /\ result = << >>
    /\ bili = Idle
    /\ calls = {}
    /\ lastWrite = {}
    /\ pin = None.pin
    /\ pout = None.pout

Call == bili.pc = "idle" /\ \E us \in Batches(env.links) : biliparser_call(us)

Next ==
    \/ Call
    \/ \E t \in 1..BatchSize : Step(t)
    \/ biliparser_return

Spec == Init /\ [][Next]_vars

-----------------------------------------------------------------------------
(* SpecSeq: calls of biliparser one after the other, each with one link.  *)
(* Time passes between the steps; the upstream services change between two *)
(* calls.                                                                  *)

\* The links of one chat that sends them one at a time.
SeqFamilies ==
    { Family({Links.audio, Links.malformed}, {"audio", "audiourl", "reply"}),
      Family({TUrl(12)}, {"dynamic", "audio", "audiourl", "reply"}),
      Family({TUrl(11), Links.h}, {"dynamic", "reply"}),
      Family({TUrl(14)}, {"dynamic", "reply"}),
      Family({Links.av, Links.bv}, {"view", "reply"}),
      Family({TUrl(13)}, {"dynamic", "view", "reply"}),
      Family({Links.ss, EpUrl(2)}, {"season", "view", "reply"}),
      Family({Links.ss, EpUrl(1)}, {"season"}),
      Family({Links.short}, {"view", "reply"}),
      Family({Links.live}, {"live"}),
      Family({Links.read, Links.unsupported}, {"read", "telegraph", "reply"}) }

InitSeq ==
    /\ now = 0
    /\ db = EmptyDb
    /\ env \in SeqFamilies
    /\ upstream = AllV1
    /\ urls = << >>
    /\ stack = << >>
    /\ result = << >>
    /\ bili = Idle
    /\ calls = {}
    /\ lastWrite = {}
    /\ pin = None.pin
    /\ pout = None.pout

SeqCall == \E u \in env.links : biliparser_call(<< u >>)

NextSeq ==
    \/ SeqCall
    \/ Step(1)
    \/ biliparser_return
    \/ Tick
    \/ bili.pc # "gather" /\ UpstreamUpdate

SpecSeq == InitSeq /\ [][NextSeq]_vars

-----------------------------------------------------------------------------
(* The batch: ordering, isolation, totality (C1, C2).                      *)

\* The value the resolution of one link gives when it runs alone on an
\* empty cache: the task is stepped until it is done.
RECURSIVE RunAlone(_)
RunAlone(o) == IF o.r.done THEN o.r.val ELSE RunAlone(StepOf(o.r.stk, o.db))
Alone(url) ==
    RunAlone(Outcome(Settle(Begin(<< >>, Frame("feed_parser", Normalize(url), 0, 0), {})),
                     EmptyDb, << >>))

\* C1: when biliparser has returned, the list has one slot per link of the
\* batch, and slot i holds the outcome of link i: the outcome that link has
\* when every other slot holds a link that fails at once, which is its
\* outcome when it is resolved alone.
C1_SlotsIndependent ==
    bili.pc = "returned" =>
        /\ Len(bili.callbacks) = Len(urls)
        /\ \A i \in DOMAIN urls : bili.callbacks[i] = Alone(urls[i])

\* C2: no exception is raised out of biliparser.
C2_NeverRaises == bili.pc # "raised"

-----------------------------------------------------------------------------
(* Write conflicts and the retry of safe_parser (C5, C6).                  *)

\* C5: with the cache empty at the start and the clock standing still, no
\* call ends with the write conflict as its value: the retry recovers it.
C5_ConflictRecovered ==
    /\ \A c \in calls : c.out # "IntegrityError"
    /\ \A t \in DOMAIN result : IsErr(result[t]) => result[t].exc # "IntegrityError"

\* The frames of the calls in progress.
Frames == UNION {{stack[t][i] : i \in DOMAIN stack[t]} : t \in DOMAIN stack}

\* What a run of a body does first after its link pattern has matched.
FirstOps == {"hit", "miss", "lookup", "bhit", "bmiss", "blookup", "page"}

\* C6: a call runs its body once when the run does not end with a write
\* conflict, and twice when the first run does; the second run starts the
\* body over, with the lookup; whatever ends the last run, a write conflict
\* included, is the outcome of the call; there is no third run.
C6_BoundedRetry ==
    /\ \A c \in calls :
        /\ Len(c.runs) \in {1, 2}
        /\ Len(c.runs) = 1 => c.runs[1].exc # "IntegrityError"
        /\ Len(c.runs) = 2 =>
              /\ c.runs[1].exc = "IntegrityError"
              /\ c.runs[2].ops # << >> /\ c.runs[2].ops[1] \in FirstOps
        /\ c.runs[Len(c.runs)].exc # "" => c.out = c.runs[Len(c.runs)].exc
    /\ \A fr \in Frames :
        /\ fr.attempt \in {1, 2}
        /\ Len(fr.hist) = fr.attempt - 1
        /\ fr.attempt = 2 => fr.hist[1].exc = "IntegrityError"

\* A call whose first run lost the race for the insert, ran again and
\* returned a feed.
C6_Witness ==
    \E c \in calls :
        /\ c.fn = "audio_parser"
        /\ Len(c.runs) = 2
        /\ c.runs[1].exc = "IntegrityError"
        /\ c.runs[1].ops = << "miss", "fetch", "query", "insert" >>
        /\ c.runs[2].ops = << "hit" >>
        /\ c.out = "ok"

-----------------------------------------------------------------------------
(* The cache store under sequential resolutions (C3, C4, C7, C8).          *)

\* C3: a payload a resolver has written under the key of its link is what
\* the lookup of that resolver, with its query and its freshness filter,
\* returns while no more than the timeout of the table has passed since the
\* write; after that the filtered lookup returns none, and the lookup
\* without the filter still returns the row.
C3_RoundTrip ==
    \A w \in lastWrite : w.ok =>
        LET filtered == get_fresh_or_none(db[w.table], w.query, now, w.ttl)
            plain == get_or_none(db[w.table], w.query)
        IN  /\ now - w.row.created <= timeout[w.table] =>
                /\ filtered.exc = "" /\ filtered.row # None.row
                /\ filtered.row.content = w.row.content
            /\ now - w.row.created > timeout[w.table] =>
                /\ filtered.exc = "" /\ filtered.row = None.row
                /\ plain.exc = "" /\ plain.row = w.row

\* C4: between two resolutions, every table holds at most one row per key,
\* and the row of a key is the one the most recent write for the key made:
\* its content the payload written, its created stamp the time of the write.
C4_UpsertInPlace ==
    bili.pc # "gather" =>
        /\ \A table \in Tables : \A r1, r2 \in db[table] :
                r1 # r2 => ~Conflict(table, r1, r2)
        /\ \A w \in lastWrite : w.row \in db[w.table]

\* The steps a run of a body may have taken, in order, in the cache stage
\* of a table: a fresh row found and nothing else, or the fetch, the
\* unfiltered lookup and then one write.
StageOps ==
    { << "hit" >>, << "lookup" >>, << "miss", "fetch" >>, << "miss", "fetch", "query" >>,
      << "miss", "fetch", "query", "update" >>, << "miss", "fetch", "query", "insert" >> }
DoneOps ==
    { << "hit" >>, << "miss", "fetch", "query", "update" >>,
      << "miss", "fetch", "query", "insert" >> }

\* The steps of ops that belong to the view stage of video_parser, or to
\* the one stage of another resolver.
RECURSIVE ViewOps(_)
ViewOps(ops) ==
    IF ops = << >> THEN << >>
    ELSE IF Head(ops) \in {"bhit", "bmiss", "bfetch", "bquery", "bupdate", "binsert", "blookup"}
    THEN ViewOps(Tail(ops))
    ELSE << Head(ops) >> \o ViewOps(Tail(ops))

CacheAside == {"dynamic_parser", "audio_parser", "live_parser", "video_parser", "reply_parser"}

\* C7: in the status-update, audio, live, video and comment resolvers a
\* run that finds a fresh row fetches nothing and writes nothing and uses
\* the payload of the row; a run that finds none fetches first and then
\* writes once, and the row of its key then holds the payload fetched.
C7_CacheAside ==
    /\ \A c \in calls : c.fn \in CacheAside =>
        \A i \in DOMAIN c.runs :
            /\ ViewOps(c.runs[i].ops) \in StageOps \cup {<< >>}
            /\ c.runs[i].exc = "" => ViewOps(c.runs[i].ops) \in DoneOps
    /\ \A fr \in Frames : fr.fn \in CacheAside =>
        /\ \E full \in StageOps \cup {<< >>} :
                /\ Len(ViewOps(fr.ops)) <= Len(full)
                /\ ViewOps(fr.ops) = SubSeq(full, 1, Len(ViewOps(fr.ops)))
        /\ fr.pc \in {"media", "reply", "sub"} =>
              /\ ViewOps(fr.ops) \in DoneOps
              /\ fr.f.info = fr.content
              /\ ViewOps(fr.ops) = << "hit" >> =>
                    fr.cache \in db[CacheOf(fr).table] /\ fr.cache.content = fr.content
              /\ ViewOps(fr.ops) # << "hit" >> =>
                    \E r \in db[CacheOf(fr).table] :
                        /\ Conflict(CacheOf(fr).table, r, NewRow(fr))
                        /\ r.content = fr.content /\ r.created >= fr.t0

\* A status update whose stale row was refreshed: fetched, then written
\* once, by an update.
C7_Witness ==
    \E c \in calls :
        /\ c.fn = "dynamic_parser"
        /\ c.runs[1].ops = << "miss", "fetch", "query", "update" >>
        /\ c.out = "ok"

\* C8: every row of the status-update, audio, live, video, bangumi and
\* comment caches holds a payload with its data key; a run that fetched a
\* payload without it ended with an error and wrote nothing.
C8_OnlyValidCached ==
    /\ \A table \in {"dynamic", "audio", "live", "video", "bangumi", "reply"} :
        \A r \in db[table] : r.content.data \in {"v1", "v2"}
    /\ \A c \in calls : \A i \in DOMAIN c.runs :
        LET ops == c.runs[i].ops
        IN  (ops # << >> /\ ops[Len(ops)] \in {"fetch", "bfetch"}) =>
                c.runs[i].exc \in {"ParserException", "AttributeError"}

\* The audio endpoint answers without data while the cache holds a stale
\* row: the resolution ends with an error and the row is as it was.
C8_Witness ==
    /\ upstream.audio = "absent"
    /\ \E c \in calls :
        /\ c.fn = "audio_parser"
        /\ c.runs[1].ops = << "miss", "fetch" >>
        /\ c.out = "ParserException"
    /\ \E r \in db.audio : r.created < now - timeout.audio /\ r.content.data = "v1"

-----------------------------------------------------------------------------
(* SpecDispatch: feed_parser on one link, up to the resolver it calls (C9). *)

\* Every scheme, host and path of a small alphabet.
DispatchLinks ==
    {Url(sch, h, pa) :
        sch \in {"", "https:"},
        h \in { << "api", "bilibili", "com" >>, << "api", "vc", "bilibili", "com" >>,
                << "api", "live", "bilibili", "com" >>, << "api", "t", "bilibili", "com" >>,
                << "t", "bilibili", "com" >>, << "h", "bilibili", "com" >>,
                << "search", "bilibili", "com" >>, << "live", "bilibili", "com" >>,
                Www, << "b23", "tv" >>, << "example", "com" >> },
        pa \in { << >>, << SegN("", 1) >>, << Seg("audio"), SegN("au", 1) >>,
                 << Seg("read"), SegN("cv", 1) >>, << Seg("video"), SegN("av", 1) >>,
                 << Seg("bangumi"), Seg("play"), SegN("ep", 2) >>, << SegN("av", 1) >>,
                 << Seg("blackboard"), Seg("index") >> }}

Quiet ==
    /\ now = 0 /\ db = EmptyDb /\ upstream = AllV1 /\ env = None.env
    /\ urls = << >> /\ stack = << >> /\ result = << >> /\ bili = Idle
    /\ calls = {} /\ lastWrite = {}

\* What the first step of feed_parser on a link led to: the resolvers
\* called, and the value feed_parser returned if it has.
Routing(o) ==
    [called |-> ({c.fn : c \in o.r.fin} \cup {o.r.stk[i].fn : i \in DOMAIN o.r.stk})
                    \ {"feed_parser"},
     val |-> o.r.val]

feed_parser_route ==
    /\ pout = None.pout
    /\ pout' = Routing(StepOf(<< Enter(Frame("feed_parser", Normalize(pin), 0, 0)).frame >>,
                              EmptyDb))
    /\ UNCHANGED <<now, db, upstream, urls, stack, result, bili, calls, lastWrite, env, pin>>

InitDispatch == Quiet /\ pin \in DispatchLinks /\ pout = None.pout
SpecDispatch == InitDispatch /\ [][feed_parser_route]_vars

\* The error feed_parser returns for a link it has no resolver for.
Unsupported(v, url) ==
    IsErr(v) /\ v.exc = "ParserException" /\ v.msg = "url error" /\ v.url = url

\* C9: the canonical link is classified in the order API subdomain,
\* status-update domain, live domain, audio path, article path,
\* video/bangumi path, and exactly the resolver of the first class that
\* matches is called; a link of the API subdomain is given to no resolver,
\* whatever else it matches; a link of the API subdomain or of no class
\* yields the error value for an unsupported link, with the canonical link.
C9_DispatchOrder ==
    pout # None.pout =>
        LET u == Canonical(Normalize(pin))
            none == pout.called = {} /\ Unsupported(pout.val, u)
        IN  IF IsApiUrl(u) THEN none
            ELSE IF IsDynamicUrl(u) THEN pout.called = {"dynamic_parser"}
            ELSE IF IsLiveUrl(u) THEN pout.called = {"live_parser"}
            ELSE IF IsAudioUrl(u) THEN pout.called = {"audio_parser"}
            ELSE IF IsReadUrl(u) THEN pout.called = {"read_parser"}
            ELSE IF IsVideoUrl(u) THEN pout.called = {"video_parser"}
            ELSE none

\* A link of the API subdomain that is also a status-update link with a
\* video path: no resolver was called.
C9_Witness ==
    /\ pin = Url("https:", << "api", "t", "bilibili", "com" >>, << Seg("video"), SegN("av", 1) >>)
    /\ pout # None.pout
    /\ pout.called = {}
    /\ Unsupported(pout.val, pin)

-----------------------------------------------------------------------------
(* SpecOrigin: dynamic_parser on one status update, from the end of its     *)
(* cache stage to the call it makes (C10).                                 *)

\* Status updates of every branch of the table and of types next to
\* them, plain and as reposts, with two cards.
OriginBodies ==
    LET types == {1, 2, 4, 8, 16, 64, 256, 512, 2024, 2048, 2099, 2100, 3999, 4000,
                  4100, 4199, 4200, 4250, 4299, 4300}
        cards == {Card(5, 6, 7, ""), Card(8, 9, 10, "text")}
    IN  {[desc |-> Desc(20, 21, ty, 0), card |-> c] : ty \in types, c \in cards}
            \cup {[desc |-> Desc(20, 21, ty, o), card |-> c] :
                    ty \in {1, 4}, o \in types, c \in cards}

\* The call dynamic_parser makes once the payload is in hand: the function
\* called and the link it is given.
SubCall(c) ==
    [fn |-> c.ev.fr.fn, url |-> c.ev.fr.url, oid |-> c.ev.fr.oid, rtype |-> c.ev.fr.rtype]

dynamic_parser_dispatch ==
    /\ pout = None.pout
    /\ pout' = SubCall(Rest([Frame("dynamic_parser", TUrl(20), 0, 0) EXCEPT
                                !.content = Payload("dynamic", << 20, 0 >>, "v1", pin)]))
    /\ UNCHANGED <<now, db, upstream, urls, stack, result, bili, calls, lastWrite, env, pin>>

\* The sub-resolver called gave its feed: dynamic_parser goes on to the
\* call of the comment resolver, lines 449-512.
dynamic_parser_resume ==
    /\ pout # None.pout
    /\ DOMAIN pout = {"fn", "url", "oid", "rtype"}
    /\ pout.fn # "reply_parser"
    /\ pout' = [fn |-> pout.fn, url |-> pout.url, oid |-> pout.oid, rtype |-> pout.rtype,
                next |-> SubCall(Resume(
                    Rest([Frame("dynamic_parser", TUrl(20), 0, 0) EXCEPT
                            !.content = Payload("dynamic", << 20, 0 >>, "v1", pin)]).top,
                    Enter(Frame(pout.fn, pout.url, 0, 0)).frame.f))]
    /\ UNCHANGED <<now, db, upstream, urls, stack, result, bili, calls, lastWrite, env, pin>>

InitOrigin == Quiet /\ pin \in OriginBodies /\ pout = None.pout
SpecOrigin == InitOrigin /\ [][dynamic_parser_dispatch \/ dynamic_parser_resume]_vars

\* The call the dispatch table with the video types vt asks for.
TableCall(vt) ==
    LET o == IF pin.desc.orig_type # 0 THEN pin.desc.orig_type ELSE pin.desc.type
    IN  IF o = 256
        THEN pout.fn = "audio_parser" /\ AudioMatch(pout.url).n = pin.card.id
        ELSE IF o \in 4200..4299
        THEN pout.fn = "live_parser" /\ LiveMatch(pout.url).n = pin.card.roomid
        ELSE IF o \in vt
        THEN /\ pout.fn = "video_parser"
             /\ VideoMatch(pout.url).kind = "aid" /\ VideoMatch(pout.url).n = pin.card.aid
        ELSE IF o = 64
        THEN pout.fn = "read_parser" /\ ReadMatch(pout.url).n = pin.card.id
        ELSE pout.fn = "reply_parser"

\* C10: origin_type 256 calls the audio resolver with the track id of the
\* card, 4200..4299 the live resolver with its room id, 8, 512 and 4000..4199
\* the video resolver with its aid, 64 the article resolver with its article
\* id; every other origin_type, 2 among them, calls no sub-resolver: the
\* next call is the one of the comment resolver.
C10_DispatchTable ==
    pout # None.pout => TableCall({8, 512} \cup (4000..4199))

\* C10 as stated: 2, 512 and 4000..4199 call the video resolver, and 8,
\* like every other origin_type, calls none.
C10_AsStated ==
    pout # None.pout => TableCall({2, 512} \cup (4000..4199))

\* A repost of a video: origin_type 8 called the video resolver with the
\* aid of the card.
C10_Witness ==
    /\ pin.desc.type = 1 /\ pin.desc.orig_type = 8
    /\ pout # None.pout
    /\ pout.fn = "video_parser"
    /\ pout.url = SubUrl("video_parser", pin.card)

\* The call of the comment resolver a status update led to, once made:
\* at once, or after the sub-resolver gave its feed.
ReplyCalls ==
    IF pout = None.pout THEN {}
    ELSE IF pout.fn = "reply_parser" THEN {pout}
    ELSE IF "next" \in DOMAIN pout THEN {pout.next}
    ELSE {}

\* C11: the reply type given to the comment resolver is a function of the
\* type of the status update itself: 2 gives 11, 16 gives 5, 64 gives 12,
\* 256 gives 14, 8, 512 and 4000..4199 give 1, and 1, 4, 4200..4299 and
\* 2048..2099 give 17; any other type gives none.  A repost, whose own type
\* is 1 or 4, is queried with 17 whatever it forwards.
C11_ReplyTable ==
    \A c \in ReplyCalls :
        LET t == pin.desc.type
        IN  /\ c.fn = "reply_parser"
            /\ c.rtype = CASE t = 2 -> 11
                           [] t = 16 -> 5
                           [] t = 64 -> 12
                           [] t = 256 -> 14
                           [] t \in {8, 512} \cup (4000..4199) -> 1
                           [] t \in {1, 4} \cup (4200..4299) \cup (2048..2099) -> 17
                           [] OTHER -> 0
            /\ pin.desc.orig_type # 0 /\ t \in {1, 4} => c.rtype = 17

\* C11 as stated: the reply type is given by origin_type, the type of the
\* forwarded content for a repost: 512 and 4000..4199 give 1, 256 gives 11,
\* 64 gives 12, 4200..4299 give 14, and 1, 4 and 2048..2099 give 17.
C11_AsStated ==
    \A c \in ReplyCalls :
        LET o == IF pin.desc.orig_type # 0 THEN pin.desc.orig_type ELSE pin.desc.type
        IN  /\ o \in {512} \cup (4000..4199) => c.rtype = 1
            /\ o = 256 => c.rtype = 11
            /\ o = 64 => c.rtype = 12
            /\ o \in 4200..4299 => c.rtype = 14
            /\ o \in {1, 4} \cup (2048..2099) => c.rtype = 17

\* A repost of an audio track: the audio resolver gave its feed, and the
\* comment resolver is called with 17 and the dynamic_id of the repost.
C11_Witness ==
    /\ pin.desc.type = 1 /\ pin.desc.orig_type = 256
    /\ pout # None.pout /\ pout.fn = "audio_parser"
    /\ "next" \in DOMAIN pout
    /\ pout.next.fn = "reply_parser" /\ pout.next.rtype = 17
    /\ pout.next.oid = pin.desc.dynamic_id

-----------------------------------------------------------------------------
(* SpecFeed: two objects of class feed, their raw fields assigned and      *)
(* their derived fields read in any order (C12, C13, C14).  A text is the  *)
(* sequence of its characters: "LF" is the newline, "CR" the carriage      *)
(* return, "SP" the space, "&#10;" the HTML entity of the newline taken    *)
(* as one character.  In SpecFeed pin holds the objects: raw[i] the raw    *)
(* fields of object i, dict[i] what its cached_property fields stored, lru *)
(* the one entry of the lru_cache of each decorated getter; pout holds     *)
(* what was seen: arg[i] the last value given to the mediaurls setter of   *)
(* object i, first[i][f] the value of the first read of field f, at[i][f]  *)
(* the setter argument in force at that read, latest[i][f] the value of    *)
(* the latest read since the raw field of f was last assigned, n the       *)
(* number of assignments and reads made.                                   *)

\* feed.shrink_line, lines 82-88: text.strip(), then "\r\n" -> "\n", then
\* "\n*\n" -> "\n".
shrink_line(text) ==
    LET space == {"LF", "CR", "SP"}
        RECURSIVE lstrip(_), rstrip(_), crlf(_), runs(_)
        lstrip(t) == IF t # << >> /\ Head(t) \in space THEN lstrip(Tail(t)) ELSE t
        rstrip(t) == IF t # << >> /\ t[Len(t)] \in space
                     THEN rstrip(SubSeq(t, 1, Len(t) - 1)) ELSE t
        crlf(t) == IF t = << >> THEN << >>
                   ELSE IF Len(t) >= 2 /\ t[1] = "CR" /\ t[2] = "LF"
                   THEN << "LF" >> \o crlf(SubSeq(t, 3, Len(t)))
                   ELSE << Head(t) >> \o crlf(Tail(t))
        runs(t) == IF t = << >> THEN << >>
                   ELSE IF Len(t) >= 2 /\ t[1] = "LF" /\ t[2] = "LF" THEN runs(Tail(t))
                   ELSE << Head(t) >> \o runs(Tail(t))
    IN  IF text = << >> THEN << >> ELSE runs(crlf(rstrip(lstrip(text))))

\* escape_markdown, lines 40-45: html.unescape, then a backslash before
\* every special character of MarkdownV2.
escape_markdown(text) ==
    LET RECURSIVE esc(_)
        esc(t) == IF t = << >> THEN << >>
                  ELSE IF Head(t) = "&#10;" THEN << "LF" >> \o esc(Tail(t))
                  ELSE IF Head(t) \in {"*", "_", ".", "!"}
                  THEN << "\\", Head(t) >> \o esc(Tail(t))
                  ELSE << Head(t) >> \o esc(Tail(t))
    IN  IF text = << >> THEN << >> ELSE esc(text)

\* A cache of one entry that is not keyed by the object.
lru_cache_unkeyed(entry, key, value) ==
    IF entry.key # 0 THEN entry ELSE [key |-> key, val |-> value]

\* functools.lru_cache(maxsize=1) around a getter, lines 94-97 and 138-141:
\* one entry for the function, whatever the object; a call with the key of
\* the entry returns its value, any other call replaces the entry.
lru_cache(entry, key, value) ==
    IF entry.key = key THEN entry ELSE [key |-> key, val |-> value]

\* The assignments and reads of one run, at most.
MaxOps == 4

\* The reads seen so far, with one more: field f of object i gave v.
Seen(i, f, v) ==
    [pout EXCEPT !.first[i][f] = IF @ = << >> THEN << v >> ELSE @,
                 !.at[i][f] = IF pout.first[i][f] = << >> THEN pout.arg[i] ELSE @,
                 !.latest[i][f] = << v >>, !.n = @ + 1]

\* f.content = content, lines 99-101
feed_content_setter(i) ==
    \E content \in { << >>, << "a" >>, << "a", "LF", "LF", "b" >>, << "SP", "a", "CR", "LF" >>,
                     << "*", "&#10;", "&#10;", "a", "LF" >> } :
        /\ pout.n < MaxOps
        /\ pin' = [pin EXCEPT !.raw[i].content = content]
        /\ pout' = [pout EXCEPT !.latest[i].content = << >>,
                                !.latest[i].content_markdown = << >>, !.n = @ + 1]
        /\ UNCHANGED <<now, db, upstream, urls, stack, result, bili, calls, lastWrite, env>>

\* f.content, lines 94-97
feed_content(i) ==
    LET e == lru_cache(pin.lru.content, i, shrink_line(pin.raw[i].content))
    IN  /\ pout.n < MaxOps
        /\ pin' = [pin EXCEPT !.lru.content = e]
        /\ pout' = Seen(i, "content", e.val)
        /\ UNCHANGED <<now, db, upstream, urls, stack, result, bili, calls, lastWrite, env>>

\* f.content_markdown, lines 103-110; it reads f.content
feed_content_markdown(i) ==
    LET e == lru_cache(pin.lru.content, i, shrink_line(pin.raw[i].content))
        md == escape_markdown(e.val)
        line == IF md # << >> /\ md[Len(md)] = "LF" THEN md ELSE Append(md, "LF")
        got == IF pin.dict[i].content_markdown # << >>
               THEN pin.dict[i].content_markdown[1]
               ELSE shrink_line(line)
    IN  /\ pout.n < MaxOps
        /\ pin' = [pin EXCEPT !.lru.content = IF pin.dict[i].content_markdown # << >>
                                              THEN @ ELSE e,
                              !.dict[i].content_markdown = << got >>]
        /\ pout' = Seen(i, "content_markdown", got)
        /\ UNCHANGED <<now, db, upstream, urls, stack, result, bili, calls, lastWrite, env>>

\* f.mediaurls = content, lines 143-148.  An argument is a list (items) or
\* a single url (scalar); a media url is "<dir>/<name>.<ext><query>", with
\* no dot when ext is "".
feed_mediaurls_setter(i) ==
    LET u(name, ext, query) == [dir |-> "http://x", name |-> name, ext |-> ext, query |-> query]
        list(items) == [isList |-> TRUE, items |-> items, scalar |-> u("", "", "")]
    IN  \E content \in
            { list(<< >>), list(<< u("a", "jpg", "") >>),
              list(<< u("b", "webp", "?w=1"), u("a", "jpg", "") >>),
              list(<< u("c", "", ""), u("d", "ts", ""), u("b", "webp", "?w=1") >>),
              [isList |-> FALSE, items |-> << >>, scalar |-> u("a", "jpg", "")] } :
            /\ pout.n < MaxOps
            /\ pin' = [pin EXCEPT !.raw[i].mediaurls =
                            IF content.isList THEN content.items ELSE << content.scalar >>]
            /\ pout' = [pout EXCEPT !.arg[i] = content,
                                    !.latest[i].mediaurls = << >>,
                                    !.latest[i].mediafilename = << >>, !.n = @ + 1]
            /\ UNCHANGED <<now, db, upstream, urls, stack, result, bili, calls, lastWrite, env>>

\* f.mediaurls, lines 138-141
feed_mediaurls(i) ==
    LET e == lru_cache(pin.lru.mediaurls, i, pin.raw[i].mediaurls)
    IN  /\ pout.n < MaxOps
        /\ pin' = [pin EXCEPT !.lru.mediaurls = e]
        /\ pout' = Seen(i, "mediaurls", e.val)
        /\ UNCHANGED <<now, db, upstream, urls, stack, result, bili, calls, lastWrite, env>>

\* f.mediafilename, lines 150-160; it reads the raw list, not f.mediaurls.
\* get_filename is re.search(r"\/([^\/]*\.\w{3,4})(?:$|\?)", url).
feed_mediafilename(i) ==
    LET get_filename(url) ==
            IF Len(url.ext) \in 3..4 THEN url.name \o "." \o url.ext ELSE ""
        raw == pin.raw[i].mediaurls
        got == IF pin.dict[i].mediafilename # << >>
               THEN pin.dict[i].mediafilename[1]
               ELSE [k \in DOMAIN raw |-> get_filename(raw[k])]
    IN  /\ pout.n < MaxOps
        /\ pin' = [pin EXCEPT !.dict[i].mediafilename = << got >>]
        /\ pout' = Seen(i, "mediafilename", got)
        /\ UNCHANGED <<now, db, upstream, urls, stack, result, bili, calls, lastWrite, env>>

\* Two objects as feed.__init__ leaves them, lines 58-72: the raw content
\* is "", the raw list of media urls is empty, nothing is cached.
InitFeed ==
    /\ Quiet
    /\ pin = [raw |-> [i \in 1..2 |-> [content |-> << >>, mediaurls |-> << >>]],
              dict |-> [i \in 1..2 |-> [content_markdown |-> << >>, mediafilename |-> << >>]],
              lru |-> [content |-> [key |-> 0, val |-> << >>],
                       mediaurls |-> [key |-> 0, val |-> << >>]]]
    /\ pout = [n |-> 0,
               arg |-> [i \in 1..2 |->
                            [isList |-> TRUE, items |-> << >>,
                             scalar |-> [dir |-> "", name |-> "", ext |-> "", query |-> ""]]],
               first |-> [i \in 1..2 |-> [f \in {"content", "content_markdown", "mediaurls",
                                                 "mediafilename"} |-> << >>]],
               at |-> [i \in 1..2 |-> [f \in {"content", "content_markdown", "mediaurls",
                                              "mediafilename"} |->
                            [isList |-> TRUE, items |-> << >>,
                             scalar |-> [dir |-> "", name |-> "", ext |-> "", query |-> ""]]]],
               latest |-> [i \in 1..2 |-> [f \in {"content", "content_markdown", "mediaurls",
                                                  "mediafilename"} |-> << >>]]]

SpecFeed ==
    InitFeed /\ [][\E i \in 1..2 :
                    \/ feed_content_setter(i) \/ feed_content(i) \/ feed_content_markdown(i)
                    \/ feed_mediaurls_setter(i) \/ feed_mediaurls(i)
                    \/ feed_mediafilename(i)]_vars

\* The fields of a feed that are read through a getter.
Derived == {"content", "content_markdown", "mediaurls", "mediafilename"}

\* C12: once a derived field of an object has been read, every later read
\* of the field on that object gives the value of the first read, whatever
\* was assigned to the object and read on the other object in between.
C12_Memoized ==
    \A i \in DOMAIN pout.first : \A f \in Derived :
        pout.first[i][f] # << >> /\ pout.latest[i][f] # << >>
            => pout.latest[i][f] = pout.first[i][f]

\* C13: the content_markdown of an object ends with a newline, and only
\* one, and has no two newlines in a row.
C13_OneTrailingNewline ==
    \A i \in DOMAIN pout.first :
        pout.first[i].content_markdown # << >> =>
            LET md == pout.first[i].content_markdown[1]
            IN  /\ md # << >> /\ md[Len(md)] = "LF"
                /\ \A k \in 1..(Len(md) - 1) : ~(md[k] = "LF" /\ md[k + 1] = "LF")

\* What reading the media of an object shows of the argument c of the
\* setter: the list itself, or the list of the one url; one file name for
\* each url, in the order of the urls.
ShowsMedia(c, read) ==
    LET list == IF c.isList THEN c.items ELSE << c.scalar >>
    IN  /\ read.mediaurls # << >> => read.mediaurls[1] = list
        /\ read.mediafilename # << >> =>
             /\ Len(read.mediafilename[1]) = Len(list)
             /\ \A k \in DOMAIN list :
                    read.mediafilename[1][k] \in {"", list[k].name \o "." \o list[k].ext}

\* C14: the first read of mediaurls on an object gives the value last
\* assigned before it as a sequence: a list as it is, a single url u as
\* << u >>; the first read of mediafilename gives one name for each url
\* last assigned before it, in their order.
C14_FirstReadNormalised ==
    \A i \in DOMAIN pout.first :
        /\ ShowsMedia(pout.at[i].mediaurls,
                      [mediaurls |-> pout.first[i].mediaurls, mediafilename |-> << >>])
        /\ ShowsMedia(pout.at[i].mediafilename,
                      [mediaurls |-> << >>, mediafilename |-> pout.first[i].mediafilename])

\* C14 as stated: every read of mediaurls or of mediafilename made after an
\* assignment shows the value assigned.
C14_AsStated ==
    \A i \in DOMAIN pout.first : ShowsMedia(pout.arg[i], pout.latest[i])

\* A single url was assigned and then read for the first time: the read
\* gave the list of that url, and its file name is a.jpg.
C14_Witness ==
    /\ ~pout.arg[1].isList
    /\ pout.first[1].mediaurls = << << pout.arg[1].scalar >> >>
    /\ pout.first[1].mediafilename = << << "a.jpg" >> >>

-----------------------------------------------------------------------------
(* SpecMaint: the maintenance entry points, db_status and db_clear, called *)
(* while one chat sends audio links (C15).  Both are wrapped by db_init,   *)
(* lines 846-858, and each of their awaits is a step: Tortoise.init,       *)
(* Tortoise.generate_schemas, the delete of db_clear, the counts of the    *)
(* two rounds of __db_status and Tortoise.close_connections.  pin holds,   *)
(* for each caller, the call it is in: the function, the await it is       *)
(* suspended at, the target, the time the delete was issued and the bound  *)
(* its filter was built with, the counts the round still waits for, the    *)
(* sum of the first round and the lines of the second; once it has         *)
(* returned, the report.  What                                             *)
(* the connections are in while several calls run is the subject of        *)
(* SpecConn.                                                               *)

\* The maintenance calls in progress at a time.
MaxMaint == 1

\* How far the clock runs beside the maintenance calls.
MaxMaintTime == 1

\* CACHES, lines 29-37: the kinds, in the order of the dict, which is the
\* order of the tasks and of the lines of the report.
CACHES == << "audio", "bangumi", "dynamic", "live", "read", "reply", "video" >>

\* How far the wall clock of the host is ahead of UTC, in ticks.
Zones == {-1, 0, 1}

\* datetime.today(), line 918: the wall clock of the host without a zone,
\* where the created column is written from timezone.now(), a time with
\* its zone (use_tz=True, line 851).  Compared with created, the bound is
\* the time of the call on a host in zone 0 only.
datetime_today(zone) == now + zone

\* A caller that is in no call.
Resting ==
    [fn |-> "", pc |-> "idle", target |-> "", called |-> 0, at |-> 0, todo |-> {},
     total |-> 0, lines |-> [t \in Tables |-> 0]]

\* db_status(), lines 910-912 under db_init: the call is suspended at
\* Tortoise.init, line 848.
db_status(c) ==
    /\ pin[c].pc \in {"idle", "returned"}
    /\ pin' = [pin EXCEPT ![c] = [Resting EXCEPT !.fn = "db_status", !.pc = "init"]]
    /\ UNCHANGED <<now, db, upstream, urls, stack, result, bili, calls, lastWrite, env, pout>>

\* db_clear(target), lines 915-919 under db_init: the call is suspended at
\* Tortoise.init, line 848.
db_clear(c, target) ==
    /\ pin[c].pc \in {"idle", "returned"}
    /\ pin' = [pin EXCEPT ![c] = [Resting EXCEPT !.fn = "db_clear", !.pc = "init",
                                                 !.target = target]]
    /\ UNCHANGED <<now, db, upstream, urls, stack, result, bili, calls, lastWrite, env, pout>>

\* Line 848, await Tortoise.init(...), completes; the call is suspended at
\* Tortoise.generate_schemas.
Tortoise_init(c) ==
    /\ pin[c].pc = "init"
    /\ pin' = [pin EXCEPT ![c].pc = "schemas"]
    /\ UNCHANGED <<now, db, upstream, urls, stack, result, bili, calls, lastWrite, env, pout>>

\* Line 853, await Tortoise.generate_schemas(), completes and the function
\* is entered.  db_clear builds the filter of its delete with
\* datetime.today() when CACHES has the target, line 917-918, on a host in
\* the given zone; otherwise, and in db_status, __db_status starts the
\* seven counts of its first round, lines 901-902.
Tortoise_generate_schemas(c, zone) ==
    /\ pin[c].pc = "schemas"
    /\ pin' = [pin EXCEPT ![c] =
                  IF @.fn = "db_clear" /\ @.target \in Tables
                  THEN [@ EXCEPT !.pc = "delete", !.called = now,
                                 !.at = datetime_today(zone)]
                  ELSE [@ EXCEPT !.pc = "result", !.todo = Tables]]
    /\ UNCHANGED <<now, db, upstream, urls, stack, result, bili, calls, lastWrite, env, pout>>

\* Line 918, await CACHES[target].filter(created__lt=...).delete(),
\* completes: the rows of the kind created before the bound of the filter
\* are gone; __db_status starts the counts of its first round.
db_clear_delete(c) ==
    /\ pin[c].pc = "delete"
    /\ db' = [db EXCEPT ![pin[c].target] = {r \in @ : ~(r.created < pin[c].at)}]
    /\ pin' = [pin EXCEPT ![c] = [@ EXCEPT !.pc = "result", !.called = 0, !.at = 0,
                                            !.todo = Tables]]
    /\ UNCHANGED <<now, upstream, urls, stack, result, bili, calls, lastWrite, env, pout>>

\* Line 902, result = await asyncio.gather(*tasks): the count of kind t
\* completes.  With the last of them gather returns and line 904 starts the
\* seven counts again; sum(result), line 906, is of this round.
db_status_result(c, t) ==
    /\ pin[c].pc = "result"
    /\ t \in pin[c].todo
    /\ pin' = [pin EXCEPT ![c] =
                  IF @.todo = {t}
                  THEN [@ EXCEPT !.pc = "ans", !.todo = Tables,
                                 !.total = @ + Cardinality(db[t])]
                  ELSE [@ EXCEPT !.todo = @ \ {t}, !.total = @ + Cardinality(db[t])]]
    /\ UNCHANGED <<now, db, upstream, urls, stack, result, bili, calls, lastWrite, env, pout>>

\* Line 904, zip(CACHES.keys(), await asyncio.gather(*tasks)): the count of
\* kind t completes, the line of t in the report.  With the last of them
\* the function returns and the call is suspended at
\* Tortoise.close_connections, line 855.
db_status_ans(c, t) ==
    /\ pin[c].pc = "ans"
    /\ t \in pin[c].todo
    /\ pin' = [pin EXCEPT ![c] =
                  IF @.todo = {t}
                  THEN [@ EXCEPT !.pc = "close", !.todo = {},
                                 !.lines[t] = Cardinality(db[t])]
                  ELSE [@ EXCEPT !.todo = @ \ {t}, !.lines[t] = Cardinality(db[t])]]
    /\ UNCHANGED <<now, db, upstream, urls, stack, result, bili, calls, lastWrite, env, pout>>

\* Lines 855-856, await Tortoise.close_connections(), completes and the call
\* returns the report: the lines and the total.
Tortoise_close_connections(c) ==
    /\ pin[c].pc = "close"
    /\ pin' = [pin EXCEPT ![c].pc = "returned"]
    /\ UNCHANGED <<now, db, upstream, urls, stack, result, bili, calls, lastWrite, env, pout>>

\* The targets db_clear is called with: a kind that holds rows, a kind that
\* holds none and a name that is no kind.
Targets == {"audio", "reply", "live", "other"}

InitMaint ==
    /\ now = 0
    /\ db = EmptyDb
    /\ env = Family({Links.audio}, {"audio", "audiourl", "reply"})
    /\ upstream = AllV1
    /\ urls = << >>
    /\ stack = << >>
    /\ result = << >>
    /\ bili = Idle
    /\ calls = {}
    /\ lastWrite = {}
    /\ pin = [c \in 1..MaxMaint |-> Resting]
    /\ pout = None.pout

\* One chat sends an audio link, one call at a time, while the upstream
\* services keep their answers; time passes, up to MaxMaintTime, and the
\* maintenance calls run beside the calls of biliparser.  The counts of a
\* round of __db_status complete in any order.
SpecMaint ==
    /\ InitMaint
    /\ [][\/ SeqCall
          \/ feed_parser_get(1)
          \/ audio_parser_lookup(1) \/ audio_parser_fetch(1)
          \/ audio_parser_query(1) \/ audio_parser_save(1) \/ audio_parser_media(1)
          \/ reply_parser_lookup(1) \/ reply_parser_fetch(1)
          \/ reply_parser_query(1) \/ reply_parser_save(1)
          \/ biliparser_return
          \/ now < MaxMaintTime /\ Tick
          \/ \E c \in 1..MaxMaint :
                \/ db_status(c)
                \/ \E target \in Targets : db_clear(c, target)
                \/ Tortoise_init(c)
                \/ \E zone \in Zones : Tortoise_generate_schemas(c, zone)
                \/ db_clear_delete(c)
                \/ \E t \in Tables : db_status_result(c, t)
                \/ \E t \in Tables : db_status_ans(c, t)
                \/ Tortoise_close_connections(c)]_vars

\* Every row of table t is still there after the step, under its key.
Kept(t) == \A r \in db[t] : \E q \in db'[t] : \A c \in KeyCols[t] : q[c] = r[c]

\* C15: the delete of db_clear(target) removes exactly the rows of the named
\* kind whose created time is before the time the call issued it and leaves
\* the rows of every other kind as they are; no other step of a
\* maintenance call changes a row, so db_status changes none and db_clear
\* with a target that names no kind deletes nothing; and no other step
\* removes a row.
C15_OnlySweepDeletes ==
    [][/\ \A c \in DOMAIN pin : pin'[c] # pin[c] =>
            IF pin[c].pc = "delete"
            THEN db' = [t \in Tables |->
                          IF t = pin[c].target
                          THEN {r \in db[t] : r.created >= pin[c].called}
                          ELSE db[t]]
            ELSE db' = db
       /\ pin' = pin => \A t \in Tables : Kept(t)]_vars

-----------------------------------------------------------------------------
(* The comments attached to a feed (C16).                                  *)

\* C16: the replycontent of every Feed a resolution ends with is a comment
\* payload that has its data key, never an error object.
C16_CommentsValid ==
    \A t \in DOMAIN result :
        IsFeed(result[t]) =>
            \A i \in DOMAIN result[t].reply :
                ~IsErr(result[t].reply[i]) /\ Valid(result[t].reply[i])

-----------------------------------------------------------------------------
(* The embedded resolvers of a status update (C17).                        *)

\* C17: when the audio, live, video or article resolver called by the
\* status-update resolver ended with an error, the status-update resolver
\* ended with an error value too, and so did the resolution.
C17_SubErrorEnds ==
    \A d \in calls :
        (/\ d.fn = "dynamic_parser"
         /\ \E c \in calls :
                /\ c.fn \in {"audio_parser", "live_parser", "video_parser", "read_parser"}
                /\ c.out # "ok")
        => /\ d.out # "ok"
           /\ \A t \in DOMAIN result : result[t] # Pending => IsErr(result[t])

\* The audio resolver called for a status update ended with
\* ParserException, the status-update resolver with AttributeError.
C17_Witness ==
    /\ \E c \in calls : c.fn = "audio_parser" /\ c.out = "ParserException"
    /\ \E d \in calls : d.fn = "dynamic_parser" /\ d.out = "AttributeError"
    /\ 1 \in DOMAIN result /\ IsErr(result[1]) /\ result[1].exc = "AttributeError"
    /\ bili.pc = "returned"

-----------------------------------------------------------------------------
(* The same status-update link resolved again (C18).                       *)

\* The resolution of url from the cache as it is now, stepped until it is
\* done: its value and the calls that finished in it.
RECURSIVE RunAgain(_, _)
RunAgain(o, fin) ==
    IF o.r.done THEN [val |-> o.r.val, fin |-> fin \cup o.r.fin]
    ELSE RunAgain(StepOf(o.r.stk, o.db), fin \cup o.r.fin)
Again(url) ==
    RunAgain(Outcome(Settle(Begin(<< >>, Frame("feed_parser", Normalize(url), 0, 0), {})),
                     db, << >>), {})
FromCache(again) ==
    /\ IsFeed(again.val)
    /\ \A c \in again.fin :
          c.fn = "dynamic_parser" => c.runs = << [ops |-> << "hit" >>, exc |-> ""] >>

\* C18: when the resolution of a status-update link has given a Feed and
\* the row of that status update is still fresh, resolving the same link
\* again finds the row: status-update resolver fetches nothing, inserts
\* nothing and the resolution gives a Feed.
C18_SecondResolutionHits ==
    (/\ bili.pc = "returned"
     /\ DynamicMatch(Normalize(urls[1])).ok
     /\ IsFeed(bili.callbacks[1])
     /\ \E r \in db.dynamic :
            r.dynamic_id = bili.callbacks[1].id /\ Fresh(r, now, timeout.dynamic))
    => FromCache(Again(urls[1]))

-----------------------------------------------------------------------------
(* The rows of the bangumi cache (C19).                                    *)

\* C19: no two rows of the bangumi cache have the same episode id or the
\* same season id, so a lookup by episode id or season id matches one row
\* at most; and no run of the season stage of video_parser ends with an
\* exception of the cache (a refused insert, more than one row matched).
C19_BangumiLookupUnique ==
    /\ \A r1, r2 \in db.bangumi :
          r1 # r2 => r1.epid # r2.epid /\ r1.ssid # r2.ssid
    /\ \A c \in calls : c.fn = "video_parser" =>
          \A i \in DOMAIN c.runs :
              (/\ c.runs[i].ops # << >>
               /\ c.runs[i].ops[Len(c.runs[i].ops)] \in
                      {"blookup", "bfetch", "bquery", "bupdate", "binsert"})
              => c.runs[i].exc \notin {"IntegrityError", "MultipleObjectsReturned"}

-----------------------------------------------------------------------------
(* The freshness window of each lookup (C20).                              *)

\* C20: a lookup takes a row for fresh exactly when the row is within the
\* time-to-live of the table it reads: the filter a pending lookup was
\* issued with picks, of the rows of its table, those created no earlier
\* than the time-to-live of that table before the lookup was issued.
C20_OwnTimeout ==
    \A fr \in Frames : fr.pc \in {"lookup", "blookup"} =>
        \A r \in db[CacheOf(fr).table] :
            Fresh(r, fr.t0, CacheOf(fr).ttl)
                <=> Fresh(r, fr.t0, timeout[CacheOf(fr).table])

-----------------------------------------------------------------------------
(* The errors of the live resolver (C21).                                  *)

\* C21: when the room-info endpoint answers with a data key that is there
\* but empty, the resolution of a live link ends with the "content" error
\* of line 600, not with the "parse" error of an answer without data.
C21_EmptyIsNoContent ==
    upstream.live = "empty" =>
        \A t \in DOMAIN result :
            (/\ result[t] # Pending
             /\ FeedRoute(Canonical(Normalize(urls[t]))) = "live_parser")
            => IsErr(result[t]) /\ result[t].msg = "live content error"

-----------------------------------------------------------------------------
(* The comment step of the resolvers (C22).                                *)

\* The object id and the reply type of the comments of the feed of fr:
\* audio.reply_type (line 296), video.reply_type (319), read.reply_type
\* (329), dynamic.oid and dynamic.reply_type (lines 197-217).
CommentsOf(fr) ==
    CASE fr.fn = "dynamic_parser" ->
            << oid(fr.content.body), reply_type(fr.content.body) >>
      [] fr.fn = "audio_parser" -> << fr.f.id, 14 >>
      [] fr.fn = "video_parser" -> << fr.f.id, 1 >>
      [] OTHER -> << fr.f.id, 12 >>

\* A resolver awaits the comment resolver only as its last step, called
\* with the object id and the reply type of its kind, the feed having no
\* replycontent yet.
AwaitsComments(stk) ==
    \A i \in DOMAIN stk :
        stk[i].pc = "reply" =>
            /\ stk[i].fn \in {"dynamic_parser", "audio_parser", "video_parser", "read_parser"}
            /\ stk[i].f.reply = << >>
            /\ i < Len(stk)
            /\ stk[i + 1].fn = "reply_parser"
            /\ << stk[i + 1].oid, stk[i + 1].rtype >> = CommentsOf(stk[i])

\* C22: the status-update, audio, video and article resolvers call the
\* comment resolver as their last step, with the object id and the reply
\* type of their kind, and the Feed they return has its result as
\* replycontent; the live resolver calls no comment resolver and its Feed
\* has no replycontent.
C22_CommentStepLast ==
    /\ \A t \in DOMAIN stack : AwaitsComments(stack[t])
    /\ \A t \in DOMAIN result :
          IsFeed(result[t]) =>
              Len(result[t].reply) = IF result[t].kind = "live" THEN 0 ELSE 1

\* C22 as stated: the Feed of every resolver, the live resolver included,
\* has the result of the comment resolver attached.
C22_AsStated ==
    \A t \in DOMAIN result : IsFeed(result[t]) => Len(result[t].reply) = 1

\* A batch of an article link and a live link has returned: the article
\* Feed carries the comments of (read_id, 12), the live Feed none.
C22_Witness ==
    /\ bili.pc = "returned"
    /\ \E t \in DOMAIN result :
          /\ IsFeed(result[t]) /\ result[t].kind = "read"
          /\ Len(result[t].reply) = 1 /\ ~IsErr(result[t].reply[1])
          /\ result[t].reply[1].key = << result[t].id, 12 >>
    /\ \E t \in DOMAIN result :
          IsFeed(result[t]) /\ result[t].kind = "live" /\ result[t].reply = << >>

-----------------------------------------------------------------------------
(* SpecCopy: what dynamic_parser takes from the feed of the resolver it    *)
(* called (C23).  pin holds the payload of the status update and the feed  *)
(* fu the sub-resolver returned, pout the fields of the outer feed f.      *)
(* Texts are sequences of characters; new_desc is one too.                 *)

\* The outer feed is read without the part of a repost.
dynamic_content_plain ==
    /\ pout # None.pout
    /\ pout.read = << >>
    /\ pout' = [pout EXCEPT !.read = << shrink_line(pout.content) >>]
    /\ UNCHANGED <<now, db, upstream, urls, stack, result, bili, calls, lastWrite, env, pin>>

\* dynamic_parser, lines 446-473 and 508-511: fu is a feed; f.content is
\* assigned what the getter fu.content gives (lines 94-97).
dynamic_parser_copy ==
    /\ pout = None.pout
    /\ pout' = [user |-> pin.fu.user, uid |-> pin.fu.uid,
                extra_markdown |-> pin.fu.extra_markdown,
                mediathumb |-> pin.fu.mediathumb, mediatitle |-> pin.fu.mediatitle,
                mediaduration |-> pin.fu.mediaduration, mediaurls |-> pin.fu.mediaurls,
                mediatype |-> pin.fu.mediatype, mediaraws |-> pin.fu.mediaraws,
                content |-> IF /\ DynamicDispatch(pin.body).branch = "VIDEO"
                               /\ pin.body.card.new_desc # << >>
                            THEN pin.body.card.new_desc
                            ELSE shrink_line(pin.fu.content),
                forward_user |-> IF has_forward(pin.body) THEN "fw" ELSE "",
                forward_content |-> IF has_forward(pin.body) THEN << "f" >> ELSE << >>,
                read |-> << >>]
    /\ UNCHANGED <<now, db, upstream, urls, stack, result, bili, calls, lastWrite, env, pin>>

\* dynamic.content, lines 254-263, read once the resolver has returned.
dynamic_content ==
    /\ pout # None.pout
    /\ pout.read = << >>
    /\ pout' = [pout EXCEPT !.read =
                  << shrink_line(
                        (IF has_forward(pin.body)
                         THEN pout.forward_content \o
                              (IF pout.user # "" THEN << "//@", pout.user, ":", "LF" >>
                               ELSE << >>)
                         ELSE << >>) \o pout.content) >>]
    /\ UNCHANGED <<now, db, upstream, urls, stack, result, bili, calls, lastWrite, env, pin>>

\* Status updates with audio, video, article and live content, plain and
\* as reposts, and the feed of the sub-resolver with one of a few texts.
InitCopy ==
    /\ Quiet
    /\ pout = None.pout
    /\ pin \in [body : {[desc |-> Desc(20, 21, ty[1], ty[2]), card |-> Card(1, 1, 1, nd)] :
                          ty \in {<< 256, 0 >>, << 1, 256 >>, << 8, 0 >>, << 4, 8 >>,
                                  << 64, 0 >>, << 4200, 0 >>},
                          nd \in {<< >>, << "d", "LF" >>}},
                fu : {[user |-> "u", uid |-> 7, extra_markdown |-> << "x" >>,
                       mediathumb |-> "thumb", mediatitle |-> "title", mediaduration |-> 9,
                       mediaurls |-> << "m" >>, mediatype |-> "image", mediaraws |-> TRUE,
                       content |-> c] :
                          c \in {<< >>, << "a" >>, << "a", "LF", "LF", "b" >>,
                                 << "SP", "a", "LF" >>, << "a", "CR", "LF", "b" >>,
                                 << "a", "CR", "CR", "LF", "b" >>}}]
SpecCopy == InitCopy /\ [][dynamic_parser_copy \/ dynamic_content]_vars

\* The fields of the outer feed are those of fu.
Copied ==
    \A k \in {"user", "uid", "extra_markdown", "mediathumb", "mediatitle",
              "mediaduration", "mediaurls", "mediatype", "mediaraws"} :
        pout[k] = pin.fu[k]

\* The raw content of the outer feed is what fu.content gives, or the
\* new_desc of a video card that has one.
RawContent ==
    pout.content = IF origin_type(pin.body) \in detail_types_list.VIDEO
                      /\ pin.body.card.new_desc # << >>
                   THEN pin.body.card.new_desc
                   ELSE shrink_line(pin.fu.content)

-----------------------------------------------------------------------------
(* A status update of a type the dispatch table does not know (C24).       *)

\* The calls of the resolvers dynamic_parser hands embedded content to.
SubCalls ==
    {c \in calls : c.fn \in {"audio_parser", "live_parser", "video_parser", "read_parser"}}

\* C24: the status update of type 2024, once its payload is in hand, is
\* resolved to a Feed: dynamic_parser calls no sub-resolver, copies nothing
\* into the Feed, calls the comment resolver and returns the Feed with
\* what that gave as replycontent.
C24_UnknownNotFatal ==
    (env.links = {TUrl(14)} /\ origin_type(DynamicBody(14)) = 2024) =>
        \A d \in calls :
            (d.fn = "dynamic_parser" /\ ViewOps(d.runs[Len(d.runs)].ops) \in DoneOps) =>
                /\ d.out = "ok"
                /\ SubCalls = {}
                /\ \E c \in calls : c.fn = "reply_parser"
                /\ result[1] # Pending =>
                      /\ IsFeed(result[1])
                      /\ result[1].sub = ""
                      /\ Len(result[1].reply) = 1

\* The update of type 2024 has been resolved: the Feed is there, with
\* nothing copied into it, after the one call of the comment resolver.
C24_Witness ==
    /\ env.links = {TUrl(14)}
    /\ result # << >> /\ IsFeed(result[1])
    /\ result[1].info.body.desc.type = 2024
    /\ result[1].sub = "" /\ Len(result[1].reply) = 1
    /\ \E c \in calls : c.fn = "reply_parser"
    /\ SubCalls = {}

-----------------------------------------------------------------------------
(* The two stages of video_parser (C25).                                   *)

\* The steps of the season stage in ops, and the ways that stage is done.
SeasonOps(ops) ==
    SelectSeq(ops, LAMBDA o : o \in {"bhit", "bmiss", "bfetch", "bquery", "bupdate",
                                     "binsert", "blookup"})
SeasonDone ==
    { << "bhit" >>, << "bmiss", "bfetch", "bquery", "bupdate" >>,
      << "bmiss", "bfetch", "bquery", "binsert" >> }

\* The aid of the episode of the season a bangumi link asks for: the
\* episode with the id of the link, the last one for a season link or for
\* an id the season does not have.
EpisodeAid(m) ==
    LET eps == SeasonBody.episodes
    IN  IF m.kind = "epid" /\ \E i \in DOMAIN eps : eps[i].id = m.n
        THEN eps[CHOOSE i \in DOMAIN eps : eps[i].id = m.n].aid
        ELSE eps[Len(eps)].aid

\* C25: video_parser is in its view stage, for a bangumi link, only when
\* the season stage is done, and then looks up the aid of the episode asked
\* for, the last episode's for a season link; for another link the view
\* stage comes first; and every call that ends well has done its view stage.
C25_ViewAfterSeason ==
    /\ \A fr \in Frames :
          (fr.fn = "video_parser" /\ fr.pc \in {"lookup", "query", "save", "reply"}) =>
              /\ fr.ops = SeasonOps(fr.ops) \o ViewOps(fr.ops)
              /\ IF VideoMatch(fr.url).kind \in {"epid", "ssid"}
                 THEN /\ SeasonOps(fr.ops) \in SeasonDone
                      /\ fr.params = [kind |-> "aid", val |-> EpisodeAid(VideoMatch(fr.url))]
                      /\ fr.query = Q("OR", [aid |-> EpisodeAid(VideoMatch(fr.url)), bvid |-> 0])
                 ELSE SeasonOps(fr.ops) = << >>
    /\ \A c \in calls :
          (c.fn = "video_parser" /\ c.out = "ok") =>
              ViewOps(c.runs[Len(c.runs)].ops) \in DoneOps

\* The season link is in its view stage, after a season stage that fetched
\* and inserted, looking up the aid of the last episode.
C25_Witness ==
    \E fr \in Frames :
        /\ fr.fn = "video_parser" /\ fr.pc = "query"
        /\ VideoMatch(fr.url).kind = "ssid"
        /\ fr.ops = << "bmiss", "bfetch", "bquery", "binsert", "miss", "fetch" >>
        /\ fr.params.val = 2

-----------------------------------------------------------------------------
(* The mirror pages of read_parser (C26).                                  *)

\* C26: a run of read_parser that finds a fresh row publishes no page; a
\* run that finds none publishes one page and then writes its url once, by
\* an update or an insert; and a run finds none only when the article cache
\* has no row of the article within the time-to-live of the article cache.
C26_PublishOnce ==
    /\ \A c \in calls : c.fn = "read_parser" =>
          \A i \in DOMAIN c.runs :
              c.runs[i].exc = "" =>
                  c.runs[i].ops \in { << "hit" >>,
                                      << "miss", "fetch", "query", "update" >>,
                                      << "miss", "fetch", "query", "insert" >> }
    /\ \A fr \in Frames :
          (fr.fn = "read_parser" /\ fr.pc = "query") =>
              /\ fr.ops = << "miss", "fetch" >>
              /\ \A r \in db.read :
                    r.read_id = fr.f.id => now - r.created > timeout.read

-----------------------------------------------------------------------------
(* SpecConn: calls of the entry points running at the same time (C27).     *)
(* db_init, lines 846-858, wraps biliparser, db_status and db_clear: it    *)
(* awaits Tortoise.init, which opens the connections of the store, awaits  *)
(* Tortoise.generate_schemas, awaits the function and, when the function   *)
(* has returned, awaits Tortoise.close_connections, which closes every     *)
(* connection.  pin holds, for each caller, the function it is in, the     *)
(* await it is suspended at and how many reads and writes of the cache the *)
(* function has yet to do; pout whether the connections are open and       *)
(* which callers have used the store while they were closed.               *)

\* The reads and writes of the cache the resolvers of one call of
\* biliparser make, at most.
MaxAccess == 2

\* The reads and writes of the cache a function makes: the resolvers of
\* biliparser as its links ask; __db_status the counts of CACHES twice, lines
\* 901-904; db_clear the delete before them when CACHES has its target,
\* lines 917-918.
Accesses(fn) ==
    CASE fn = "biliparser" -> 0..MaxAccess
      [] fn = "db_status" -> {2 * Len(CACHES)}
      [] OTHER -> {2 * Len(CACHES), 2 * Len(CACHES) + 1}

\* A call of a wrapped function, inner_function of lines 847-848: it is
\* suspended at Tortoise.init.
db_init(c, fn, n) ==
    /\ pin[c].pc = "idle"
    /\ n \in Accesses(fn)
    /\ pin' = [pin EXCEPT ![c] = [fn |-> fn, pc |-> "init", left |-> n]]
    /\ UNCHANGED <<now, db, upstream, urls, stack, result, bili, calls, lastWrite, env, pout>>

\* Line 848, await Tortoise.init(...), completes: the connections are
\* open; the call is suspended at Tortoise.generate_schemas.
db_init_open(c) ==
    /\ pin[c].pc = "init"
    /\ pin' = [pin EXCEPT ![c].pc = "schemas"]
    /\ pout' = [pout EXCEPT !.open = TRUE]
    /\ UNCHANGED <<now, db, upstream, urls, stack, result, bili, calls, lastWrite, env>>

\* Line 853, await Tortoise.generate_schemas(), completes: the tables are
\* created through the connections, and line 854 enters the function.
db_init_schemas(c) ==
    /\ pin[c].pc = "schemas"
    /\ pin' = [pin EXCEPT ![c].pc = "func"]
    /\ pout' = [pout EXCEPT !.late = IF pout.open THEN @ ELSE @ \cup {c}]
    /\ UNCHANGED <<now, db, upstream, urls, stack, result, bili, calls, lastWrite, env>>

\* Line 854, result = await func(*args, **kwargs): one read or write of
\* the cache by the function completes.  With its last count __db_status
\* returns, and the call is suspended at Tortoise.close_connections, line
\* 855; biliparser has the awaits of its resolvers and of its client left.
db_init_func(c) ==
    /\ pin[c].pc = "func"
    /\ pin[c].left > 0
    /\ pin' = [pin EXCEPT ![c] = [@ EXCEPT !.left = @ - 1,
                    !.pc = IF pin[c].fn # "biliparser" /\ pin[c].left = 1
                           THEN "close" ELSE "func"]]
    /\ pout' = [pout EXCEPT !.late = IF pout.open THEN @ ELSE @ \cup {c}]
    /\ UNCHANGED <<now, db, upstream, urls, stack, result, bili, calls, lastWrite, env>>

\* Lines 877-897 and 855: the last task of the batch is done, biliparser
\* logs the slots and returns the list; the call is suspended at
\* Tortoise.close_connections.
db_init_return(c) ==
    /\ pin[c].fn = "biliparser"
    /\ pin[c].pc = "func"
    /\ pin[c].left = 0
    /\ pin' = [pin EXCEPT ![c].pc = "close"]
    /\ UNCHANGED <<now, db, upstream, urls, stack, result, bili, calls, lastWrite, env, pout>>

\* Lines 879-896 and 854: logging a slot raises out of biliparser and out
\* of inner_function; line 855 is not reached and the connections stay as
\* they are.
db_init_raise(c) ==
    /\ pin[c].fn = "biliparser"
    /\ pin[c].pc = "func"
    /\ pin[c].left = 0
    /\ pin' = [pin EXCEPT ![c] = [fn |-> "", pc |-> "idle", left |-> 0]]
    /\ UNCHANGED <<now, db, upstream, urls, stack, result, bili, calls, lastWrite, env, pout>>

\* Lines 855-856, await Tortoise.close_connections(), completes: every
\* connection is closed, and the call returns.
db_init_close(c) ==
    /\ pin[c].pc = "close"
    /\ pin' = [pin EXCEPT ![c] = [fn |-> "", pc |-> "idle", left |-> 0]]
    /\ pout' = [pout EXCEPT !.open = FALSE]
    /\ UNCHANGED <<now, db, upstream, urls, stack, result, bili, calls, lastWrite, env>>

\* No call is in progress and the connections are closed.
InitConn ==
    /\ Quiet
    /\ pin = [c \in 1..2 |-> [fn |-> "", pc |-> "idle", left |-> 0]]
    /\ pout = [open |-> FALSE, late |-> {}]

SpecConn ==
    /\ InitConn
    /\ [][\E c \in 1..2 :
            \/ \E fn \in {"biliparser", "db_status", "db_clear"} :
                  \E n \in Accesses(fn) : db_init(c, fn, n)
            \/ db_init_open(c)
            \/ db_init_schemas(c)
            \/ db_init_func(c)
            \/ db_init_return(c)
            \/ db_init_raise(c)
            \/ db_init_close(c)]_vars

\* C27: while a call is between its open and its close the connections
\* are open, and no call has read or written the cache with the
\* connections closed.
C27_OpenWhileInUse ==
    /\ \A c \in DOMAIN pin : pin[c].pc \in {"schemas", "func", "close"} => pout.open
    /\ pout.late = {}

=============================================================================
